---- MODULE Spec2Model ----
(***************************************************************************)
(* Model of the music tagger: the web application's save / undo / delete   *)
(* handlers with their backup area and history file                        *)
(* (config/tagger-app/app.py) and the batch auto-tagger                    *)
(* (config/fingerprint_tagger.py).                                         *)
(*                                                                         *)
(* Strings are sequences of one-character strings, a path is the sequence  *)
(* of its components, and the file system is a function from the paths     *)
(* that exist to their nodes (a directory, or a file with its tags).       *)
(***************************************************************************)
EXTENDS Integers, Sequences, FiniteSets, TLC

VARIABLES
    fs,        \* the file system: existing path -> node
    history,   \* the content of HISTORY_FILE: a sequence of entries
    clock,     \* the wall clock, in seconds
    log,       \* bookkeeping: every entry ever appended, as appended
    reversed,  \* bookkeeping: positions in log whose backup an undo restored
    runs,      \* bookkeeping: handler runs that changed the files or the history
    answers,   \* the identification service: ripped file -> what it answers for it
    inflight   \* the save requests a server thread is working on: request -> its locals

vars == <<fs, history, clock, log, reversed, runs, answers, inflight>>

----------------------------------------------------------------------------
(* Bounds of the model.                                                    *)

\* Spec: at most this many runs of save, delete and main change anything.
MaxRuns == 3
\* The clock stops after this many seconds.
MaxClock == 1
\* SpecCap: the ledger is first filled by this many in-place saves ...
WarmUp == 99
\* ... and handlers stop being called once this many entries were appended.
MaxAppends == 103
\* SpecAlbum: the ripped album has at most this many tracks ...
MaxTracks == 10
\* ... along which the service's answer changes at most this often ...
MaxChanges == 2
\* ... and at most this many batch runs change anything.
MaxBatch == 1
\* SpecLookup: the ripped album has at most this many tracks.
LookupTracks == 1
\* SpecNames: the names entered have at most this many characters ...
MaxName == 2
\* ... and at most this many runs change anything.
MaxForms == 1

----------------------------------------------------------------------------
(* Characters and strings.                                                 *)

\* The characters of the model in ASCII order (sorted() compares by code point).
Alphabet ==
    <<" ", "\"", "*", "-", ".", "/", "0", "1", "2", "3", "4", "5", "6", "7",
      "8", "9", ":", "<", ">", "?", "A", "B", "C", "D", "E", "F", "G", "H",
      "I", "J", "K", "L", "M", "N", "O", "P", "Q", "R", "S", "T", "U", "V",
      "W", "X", "Y", "Z", "\\", "_", "a", "b", "c", "d", "e", "f", "g", "h",
      "i", "j", "k", "l", "m", "n", "o", "p", "q", "r", "s", "t", "u", "v",
      "w", "x", "y", "z", "|">>

OrdOf == [c \in {Alphabet[i] : i \in 1..Len(Alphabet)} |->
             CHOOSE i \in 1..Len(Alphabet) : Alphabet[i] = c]

\* ord(c), counted within the model's alphabet
Ord(c) == OrdOf[c]

RECURSIVE LexLess(_, _)
LexLess(a, b) ==
    IF b = <<>> THEN FALSE
    ELSE IF a = <<>> THEN TRUE
    ELSE IF Ord(a[1]) < Ord(b[1]) THEN TRUE
    ELSE IF Ord(a[1]) > Ord(b[1]) THEN FALSE
    ELSE LexLess(Tail(a), Tail(b))

Digits == <<"0", "1", "2", "3", "4", "5", "6", "7", "8", "9">>

\* str(n) for n >= 0
RECURSIVE Str(_)
Str(n) == IF n < 10 THEN <<Digits[n + 1]>> ELSE Str(n \div 10) \o <<Digits[(n % 10) + 1]>>

\* f"{n:02d}"
Pad2(n) == IF n < 10 THEN <<"0">> \o Str(n) ELSE Str(n)

startswith(s, pre) == Len(pre) <= Len(s) /\ SubSeq(s, 1, Len(pre)) = pre

endswith(s, suf) == Len(suf) <= Len(s) /\ SubSeq(s, Len(s) - Len(suf) + 1, Len(s)) = suf

\* The first position at which sub occurs in s, 0 when it does not (sub in s).
FindSub(s, sub) ==
    LET at == {k \in 1..(Len(s) - Len(sub) + 1) : SubSeq(s, k, k + Len(sub) - 1) = sub}
    IN  IF at = {} THEN 0 ELSE CHOOSE k \in at : \A j \in at : k <= j

Whitespace == {" "}

\* str.strip()
RECURSIVE LStrip(_)
LStrip(s) == IF s # <<>> /\ s[1] \in Whitespace THEN LStrip(Tail(s)) ELSE s

RECURSIVE RStrip(_)
RStrip(s) ==
    IF s # <<>> /\ s[Len(s)] \in Whitespace THEN RStrip(SubSeq(s, 1, Len(s) - 1)) ELSE s

Strip(s) == RStrip(LStrip(s))

\* str.lower()
LowerChar(c) ==
    IF Ord(c) >= Ord("A") /\ Ord(c) <= Ord("Z")
    THEN Alphabet[Ord(c) + (Ord("a") - Ord("A"))]
    ELSE c

RECURSIVE Lower(_)
Lower(s) == IF s = <<>> THEN <<>> ELSE <<LowerChar(s[1])>> \o Lower(Tail(s))

\* str.replace(ch, "-")
RECURSIVE Replace(_, _)
Replace(s, ch) ==
    IF s = <<>> THEN <<>>
    ELSE <<IF s[1] = ch THEN "-" ELSE s[1]>> \o Replace(Tail(s), ch)

Forbidden == <<"/", "\\", ":", "*", "?", "\"", "<", ">", "|">>

RECURSIVE ReplaceEach(_, _)
ReplaceEach(s, k) == IF k > Len(Forbidden) THEN s ELSE ReplaceEach(Replace(s, Forbidden[k]), k + 1)

\* A faulty variant of sanitize: the name is not stripped.
sanitize_unstripped(name) == ReplaceEach(name, 1)

\* app.py sanitize: every forbidden character becomes "-", then strip.
sanitize(name) == Strip(ReplaceEach(name, 1))

----------------------------------------------------------------------------
(* Paths and the file system.                                              *)

\* "m" stands for /home/arm/music, <<"l">>/<<"b">> for /home/arm/logs/tagger_backups.
MUSIC_DIR == << <<"m">> >>

UnknownArtist == <<"U", "n">>

UNKNOWN_DIR == MUSIC_DIR \o <<UnknownArtist>>

BACKUP_DIR == << <<"l">>, <<"b">> >>

\* None, or the empty string, where the code holds a path.
NoPath == <<>>

DirNode == [kind |-> "dir"]

dirname(p) == SubSeq(p, 1, Len(p) - 1)

basename(p) == IF p = <<>> THEN <<>> ELSE p[Len(p)]

IsPrefix(p, q) == Len(p) <= Len(q) /\ SubSeq(q, 1, Len(p)) = p

exists(f, p) == p \in DOMAIN f

isdir(f, p) == p \in DOMAIN f /\ f[p].kind = "dir"

listdir(f, p) == {q \in DOMAIN f : Len(q) = Len(p) + 1 /\ IsPrefix(p, q)}

rmtree(f, p) == [q \in {x \in DOMAIN f : ~IsPrefix(p, x)} |-> f[q]]

\* os.rmdir of an empty directory
rmdir(f, p) == [q \in DOMAIN f \ {p} |-> f[q]]

makedirs(f, p) ==
    [q \in DOMAIN f \cup {SubSeq(p, 1, k) : k \in 1..Len(p)} |->
        IF q \in DOMAIN f THEN f[q] ELSE DirNode]

\* The tree below p, by path relative to p (<<>> is p itself).
Subtree(f, p) ==
    [r \in {SubSeq(q, Len(p) + 1, Len(q)) : q \in {x \in DOMAIN f : IsPrefix(p, x)}} |->
        f[p \o r]]

\* f with the tree t planted at p.
Plant(f, p, t) ==
    [q \in DOMAIN f \cup {p \o r : r \in DOMAIN t} |->
        IF IsPrefix(p, q) /\ SubSeq(q, Len(p) + 1, Len(q)) \in DOMAIN t
        THEN t[SubSeq(q, Len(p) + 1, Len(q))]
        ELSE f[q]]

\* shutil.copytree(src, dst), dst absent
copytree(f, src, dst) == Plant(f, dst, Subtree(f, src))

\* shutil.move(src, dst): into dst when dst is a directory, else a rename onto dst.
move(f, src, dst) ==
    LET to == IF isdir(f, dst) THEN dst \o <<basename(src)>> ELSE dst
    IN  Plant(rmtree(rmtree(f, src), to), to, Subtree(f, src))

DotFlac == <<".", "f", "l", "a", "c">>

RECURSIVE SortPaths(_)
SortPaths(S) ==
    IF S = {} THEN <<>>
    ELSE LET m == CHOOSE x \in S : \A y \in S : x = y \/ LexLess(basename(x), basename(y))
         IN  <<m>> \o SortPaths(S \ {m})

\* sorted(Path(p).glob("*.flac"))
glob_flac(f, p) == SortPaths({q \in listdir(f, p) : endswith(basename(q), DotFlac)})

\* os.path.normpath: empty and "." components dropped, ".." takes one back.
RECURSIVE NormFrom(_, _)
NormFrom(done, rest) ==
    IF rest = <<>> THEN done
    ELSE IF rest[1] = <<>> \/ rest[1] = <<".">> THEN NormFrom(done, Tail(rest))
    ELSE IF rest[1] = <<".", ".">> /\ done # <<>>
         THEN NormFrom(SubSeq(done, 1, Len(done) - 1), Tail(rest))
    ELSE NormFrom(Append(done, rest[1]), Tail(rest))

normpath(p) == NormFrom(<<>>, p)

\* The path as the string the code holds: "/" before every component.
RECURSIVE PathStr(_)
PathStr(p) == IF p = <<>> THEN <<>> ELSE <<"/">> \o p[1] \o PathStr(Tail(p))

----------------------------------------------------------------------------
(* Tags.                                                                   *)

NoTags ==
    [artist |-> <<>>, albumartist |-> <<>>, album |-> <<>>, title |-> <<>>,
     tracknumber |-> <<>>, tracktotal |-> <<>>, compilation |-> <<>>, date |-> <<>>,
     genre |-> <<>>, discnumber |-> <<>>, disctotal |-> <<>>, pictures |-> <<>>]

\* A file; valid says whether mutagen can open it as FLAC.
FileNode(t, v) == [kind |-> "file", tags |-> t, valid |-> v]

\* The picture block process_image makes of uploaded artwork.
NewArt == <<"n">>

----------------------------------------------------------------------------
(* The history file.                                                       *)

HistoryCap == 100

load_history(h) == h

\* The entry as the handlers build it, before add_history_entry fills it in.
Entry(artist, album, action, original_path, new_path, backup_path) ==
    [id |-> 0, timestamp |-> 0, undone |-> FALSE, artist |-> artist, album |-> album,
     action |-> action, original_path |-> original_path, new_path |-> new_path,
     backup_path |-> backup_path]

\* A faulty variant of add_history_entry: history[:100], which keeps the oldest.
add_history_entry_head(h, entry, now) ==
    LET hist == load_history(h)
        e == [entry EXCEPT !.id = Len(hist) + 1, !.timestamp = now, !.undone = FALSE]
        appended == Append(hist, e)
    IN  IF Len(appended) > HistoryCap THEN SubSeq(appended, 1, HistoryCap) ELSE appended

add_history_entry(h, entry, now) ==
    LET hist == load_history(h)
        e == [entry EXCEPT !.id = Len(hist) + 1, !.timestamp = now, !.undone = FALSE]
        appended == Append(hist, e)
    IN  IF Len(appended) > HistoryCap
        THEN SubSeq(appended, Len(appended) - HistoryCap + 1, Len(appended))
        ELSE appended

\* A faulty variant of ScanUndoable: the undone flag is not looked at.
RECURSIVE ScanBackedUp(_, _)
ScanBackedUp(h, i) ==
    IF i = 0 THEN 0
    ELSE IF h[i].backup_path # NoPath THEN i
    ELSE ScanBackedUp(h, i - 1)

\* A faulty variant of ScanUndoable: the backup path is not looked at.
RECURSIVE ScanNotUndone(_, _)
ScanNotUndone(h, i) ==
    IF i = 0 THEN 0
    ELSE IF ~h[i].undone THEN i
    ELSE ScanNotUndone(h, i - 1)

\* for entry in reversed(history): the position of the first hit, 0 for None.
RECURSIVE ScanUndoable(_, _)
ScanUndoable(h, i) ==
    IF i = 0 THEN 0
    ELSE IF ~h[i].undone /\ h[i].backup_path # NoPath THEN i
    ELSE ScanUndoable(h, i - 1)

\* A faulty variant of get_last_undoable: the scan without reversed().
get_first_undoable(h) ==
    LET hits == {i \in 1..Len(h) : ~h[i].undone /\ h[i].backup_path # NoPath}
    IN  IF hits = {} THEN 0 ELSE CHOOSE i \in hits : \A j \in hits : i <= j

get_last_undoable(h) == ScanUndoable(load_history(h), Len(h))

\* for h in history: if h.get('id') == entry.get('id'): h['undone'] = True; break
mark_undone(h, id) ==
    LET hits == {i \in 1..Len(h) : h[i].id = id}
    IN  IF hits = {} THEN h
        ELSE [h EXCEPT ![CHOOSE i \in hits : \A j \in hits : i <= j].undone = TRUE]

----------------------------------------------------------------------------
(* Backups.                                                                *)

BackupWord == <<"b", "a", "c", "k", "u", "p", "_">>

\* datetime.now().strftime('%Y%m%d_%H%M%S'): the date, "_", the time of day.
strftime(now) == <<"0">> \o <<"_">> \o Str(now)

\* A faulty variant of create_backup: the older backups are left in place.
create_backup_keep(f, folder_path, now) ==
    LET f0 == makedirs(f, BACKUP_DIR)
        backup_path == BACKUP_DIR \o <<BackupWord \o strftime(now) \o <<"_">>
                                         \o basename(folder_path)>>
    IN  [fs |-> copytree(rmtree(f0, backup_path), folder_path, backup_path),
         backup_path |-> backup_path, removed |-> {}]

create_backup(f, folder_path, now) ==
    LET album_name == basename(folder_path)
        f0 == makedirs(f, BACKUP_DIR)
        old == {e \in listdir(f0, BACKUP_DIR) :
                   isdir(f0, e) /\ endswith(basename(e), <<"_">> \o album_name)}
        f1 == [q \in {x \in DOMAIN f0 : \A e \in old : ~IsPrefix(e, x)} |-> f0[q]]
        backup_name == BackupWord \o strftime(now) \o <<"_">> \o album_name
        backup_path == BACKUP_DIR \o <<backup_name>>
    IN  [fs |-> copytree(f1, folder_path, backup_path), backup_path |-> backup_path,
         removed |-> old]

----------------------------------------------------------------------------
(* The save handler.                                                       *)

Dash == <<" ", "-", " ">>

TrackWord == <<"T", "r", "a", "c", "k", " ">>

compilation_keywords ==
    {<<"v", "a", "r", "i", "o", "u", "s", " ", "a", "r", "t", "i", "s", "t", "s">>,
     <<"v", "a", "r", "i", "o", "u", "s">>, <<"v", "a">>,
     <<"s", "o", "u", "n", "d", "t", "r", "a", "c", "k">>, <<"o", "s", "t">>,
     <<"c", "o", "m", "p", "i", "l", "a", "t", "i", "o", "n">>,
     <<"s", "a", "m", "p", "l", "e", "r">>}

\* A faulty variant of is_compilation: only the keywords themselves make one.
is_compilation_exact(artist) == Strip(Lower(artist)) \in compilation_keywords

is_compilation(artist) ==
    \/ Strip(Lower(artist)) \in compilation_keywords
    \/ \E kw \in {<<"v", "a", "r", "i", "o", "u", "s">>,
                  <<"s", "o", "u", "n", "d", "t", "r", "a", "c", "k">>,
                  <<"o", "s", "t">>} : FindSub(Lower(artist), kw) > 0

\* request.form.get(f'track_{i}', '')
FormTitle(titles, i) == IF i <= Len(titles) THEN titles[i] ELSE <<>>

\* The tags save writes on track i of n (delete(), clear_pictures(), then each field).
save_tags(c, old, i, n, track_artist, track_title) ==
    [artist |-> track_artist, albumartist |-> c.artist, album |-> c.album_name,
     title |-> track_title, tracknumber |-> Str(i), tracktotal |-> Str(n),
     compilation |-> IF c.is_compilation THEN <<"1">> ELSE <<>>,
     date |-> c.year, genre |-> c.genre, discnumber |-> c.disc_number,
     disctotal |-> c.disc_total,
     pictures |-> IF c.art THEN NewArt ELSE old.pictures]

\* track_title = request.form.get(f'track_{i}', '').strip() or f"Track {i}"
track_title(given, i) == IF given = <<>> THEN TrackWord \o Str(i) ELSE given

\* The artist and title of a track: "Artist - Title" is split for a compilation.
\* at is the place of " - " in title (0: none).
track_fields(c, title, at) ==
    LET left == IF at > 0 THEN Strip(SubSeq(title, 1, at - 1)) ELSE <<>>
        right == IF at > 0 THEN Strip(SubSeq(title, at + Len(Dash), Len(title))) ELSE <<>>
        split == c.is_compilation /\ at > 0 /\ left # <<>> /\ right # <<>>
    IN  [artist |-> IF split THEN left ELSE c.artist,
         title |-> IF split THEN right ELSE title]

track_of(c, title) == track_fields(c, title, FindSub(title, Dash))

\* The file name of track i, whose artist and title are t.
new_name(c, i, t) ==
    IF c.is_compilation /\ t.artist # c.artist
    THEN Pad2(i) \o Dash \o sanitize(t.artist) \o Dash \o sanitize(t.title) \o DotFlac
    ELSE Pad2(i) \o Dash \o sanitize(t.title) \o DotFlac

\* try: audio = FLAC(path) ... audio.save() except: pass
tag_track(f, flac_path, c, i, n, t, node) ==
    IF node.kind = "file" /\ node.valid
    THEN [f EXCEPT ![flac_path].tags = save_tags(c, node.tags, i, n, t.artist, t.title)]
    ELSE f

\* The loop over the tracks from track i on. c.failAt is the track whose
\* shutil.move raises (0: none); the exception leaves the handler.
RECURSIVE save_tracks(_, _, _, _)

\* if not same_location: shutil.move(str(flac_path), str(new_path))
move_track(tagged, flac_files, i, c, t) ==
    IF c.same_location THEN save_tracks(tagged, flac_files, i + 1, c)
    ELSE IF c.failAt = i THEN [fs |-> tagged, raised |-> TRUE]
    ELSE save_tracks(move(tagged, flac_files[i], c.new_dir \o <<new_name(c, i, t)>>),
                     flac_files, i + 1, c)

save_track(f, flac_files, i, c, t) ==
    move_track(tag_track(f, flac_files[i], c, i, Len(flac_files), t, f[flac_files[i]]),
               flac_files, i, c, t)

save_tracks(f, flac_files, i, c) ==
    IF i > Len(flac_files) THEN [fs |-> f, raised |-> FALSE]
    ELSE save_track(f, flac_files, i, c,
                    track_of(c, track_title(Strip(FormTitle(c.titles, i)), i)))

\* A faulty variant of remove_source: the source goes only when it is empty.
remove_source_if_empty(f, folder_path) ==
    LET f1 == IF exists(f, folder_path) /\ listdir(f, folder_path) = {}
              THEN rmdir(f, folder_path) ELSE f
        parent == dirname(folder_path)
    IN  IF exists(f1, parent) /\ listdir(f1, parent) = {} THEN rmdir(f1, parent) ELSE f1

\* rmtree of the source, then rmdir of its parent when that is left empty.
remove_source(f, folder_path) ==
    LET f1 == IF exists(f, folder_path) THEN rmtree(f, folder_path) ELSE f
        parent == dirname(folder_path)
    IN  IF exists(f1, parent) /\ listdir(f1, parent) = {} THEN rmdir(f1, parent) ELSE f1

Outcome(f, h, result, src, dst, backup, removed) ==
    [fs |-> f, history |-> h, result |-> result, src |-> src, dst |-> dst,
     backup |-> backup, removed |-> removed, sel |-> 0]

\* The end of save: t is what the loop over the tracks came to.
save_done(h, now, c, b, t) ==
    IF t.raised
    THEN Outcome(t.fs, h, "Internal Server Error", c.folder_path, c.new_dir,
                 b.backup_path, b.removed)
    ELSE Outcome(IF c.same_location THEN t.fs ELSE remove_source(t.fs, c.folder_path),
                 add_history_entry(h,
                     Entry(c.artist, c.album_name,
                           IF c.same_location
                           THEN [kind |-> "Updated metadata", arg |-> <<>>]
                           ELSE [kind |-> "Moved from", arg |-> basename(c.folder_path)],
                           c.folder_path, c.new_dir, b.backup_path),
                     now),
                 "Success", c.folder_path, c.new_dir, b.backup_path, b.removed)

\* A faulty variant of save_backed: new_dir.exists() is not asked.
save_backed_unchecked(h, now, c, b) ==
    save_done(h, now, c, b,
              save_tracks(IF c.same_location THEN b.fs ELSE makedirs(b.fs, c.new_dir),
                          glob_flac(b.fs, c.folder_path), 1, c))

\* save once the backup b is taken.
save_backed(h, now, c, b) ==
    IF ~c.same_location /\ exists(b.fs, c.new_dir)
    THEN Outcome(b.fs, h, "Folder already exists", c.folder_path, c.new_dir,
                 b.backup_path, b.removed)
    ELSE save_done(h, now, c, b,
                   save_tracks(IF c.same_location THEN b.fs ELSE makedirs(b.fs, c.new_dir),
                               glob_flac(b.fs, c.folder_path), 1, c))

\* A faulty variant of save_context: the destination is never taken for the source.
save_context_elsewhere(form, failAt, artist, album_name, new_dir) ==
    [folder_path |-> form.path, artist |-> artist, album_name |-> album_name,
     year |-> Strip(form.year), genre |-> Strip(form.genre),
     disc_number |-> Strip(form.disc_number), disc_total |-> Strip(form.disc_total),
     titles |-> form.titles, art |-> form.art, new_dir |-> new_dir,
     same_location |-> FALSE,
     is_compilation |-> is_compilation(artist), failAt |-> failAt]

\* What save holds of the request: the stripped fields, new_dir, same_location.
save_context(form, failAt, artist, album_name, new_dir) ==
    [folder_path |-> form.path, artist |-> artist, album_name |-> album_name,
     year |-> Strip(form.year), genre |-> Strip(form.genre),
     disc_number |-> Strip(form.disc_number), disc_total |-> Strip(form.disc_total),
     titles |-> form.titles, art |-> form.art, new_dir |-> new_dir,
     same_location |-> normpath(new_dir) = normpath(form.path),
     is_compilation |-> is_compilation(artist), failAt |-> failAt]

save_named(f, h, now, form, failAt, artist, album_name) ==
    IF artist = <<>> \/ album_name = <<>>
    THEN Outcome(f, h, "Artist and Album name are required", form.path, NoPath, NoPath, {})
    ELSE save_backed(h, now,
                     save_context(form, failAt, artist, album_name,
                                  MUSIC_DIR \o <<sanitize(artist), sanitize(album_name)>>),
                     create_backup(f, form.path, now))

\* save: form is the posted form, failAt the track whose move raises (0: none).
save(f, h, now, form, failAt) ==
    IF ~exists(f, form.path)
    THEN Outcome(f, h, "Album not found", form.path, NoPath, NoPath, {})
    ELSE save_named(f, h, now, form, failAt, Strip(form.artist), Strip(form.album_name))

----------------------------------------------------------------------------
(* The undo handler.                                                       *)

undo(f, h) ==
    LET i == get_last_undoable(h)
    IN
    IF i = 0 THEN Outcome(f, h, "Nothing to undo", NoPath, NoPath, NoPath, {})
    ELSE
    LET entry == h[i]
        backup_path == entry.backup_path
        new_path == entry.new_path
        original_path == entry.original_path
    IN
    IF backup_path # NoPath /\ exists(f, backup_path)
    THEN
        LET f1 == IF new_path # NoPath /\ exists(f, new_path)
                  THEN LET g == rmtree(f, new_path)
                           parent == dirname(new_path)
                       IN  IF exists(g, parent) /\ listdir(g, parent) = {}
                           THEN rmdir(g, parent) ELSE g
                  ELSE f
            f2 == IF exists(f1, original_path) THEN rmtree(f1, original_path) ELSE f1
            f3 == makedirs(f2, dirname(original_path))
            f4 == move(f3, backup_path, original_path)
            h1 == mark_undone(load_history(h), entry.id)
        IN  [Outcome(f4, h1, "Undo successful", original_path, new_path, backup_path, {})
                EXCEPT !.sel = i]
    ELSE [Outcome(f, h, "Cannot undo: Backup not found", original_path, new_path,
                  backup_path, {}) EXCEPT !.sel = i]

----------------------------------------------------------------------------
(* The delete handler.                                                     *)

delete_album(f, h, now, path, keep_backup) ==
    IF path = NoPath \/ ~exists(f, path)
    THEN Outcome(f, h, "Album not found", path, NoPath, NoPath, {})
    ELSE IF ~startswith(PathStr(path), PathStr(MUSIC_DIR))
    THEN Outcome(f, h, "Invalid path", path, NoPath, NoPath, {})
    ELSE
    LET folder_name == basename(path)
        parent_name == basename(dirname(path))
        b == IF keep_backup THEN create_backup(f, path, now)
             ELSE [fs |-> f, backup_path |-> NoPath, removed |-> {}]
        f1 == remove_source(b.fs, path)
        action == [kind |-> IF keep_backup THEN "Deleted album (backup kept)"
                            ELSE "Deleted album (no backup)", arg |-> <<>>]
        h1 == add_history_entry(h,
                  Entry(parent_name, folder_name, action, path, NoPath, b.backup_path), now)
    IN  Outcome(f1, h1, "Deleted", path, NoPath, b.backup_path, b.removed)

----------------------------------------------------------------------------
(* The batch auto-tagger (fingerprint_tagger.py).                          *)

\* The thresholds, in percent.
MIN_CONFIDENCE == 80
MIN_IDENTIFIED_RATIO == 70
MIN_CONSENSUS_RATIO == 70

UnknownAlbum == <<"U", "n", "k", "n", "o", "w", "n", " ", "A", "l", "b", "u", "m">>

NoResult == [found |-> FALSE, score |-> 0, title |-> <<>>, artist |-> <<>>,
             album |-> <<>>, year |-> <<>>]

\* The first recording of recs, from position k on, with a title and an artist.
RECURSIVE first_recording(_, _, _)
first_recording(recs, k, score) ==
    IF k > Len(recs) THEN NoResult
    ELSE
    LET recording == recs[k]
        title == recording.title
        artist == IF recording.artists # <<>> THEN recording.artists[1] ELSE <<>>
        has_release == recording.releases # <<>>
        album == IF has_release THEN recording.releases[1].title ELSE <<>>
        date == IF has_release THEN recording.releases[1].date ELSE <<>>
        year == IF Len(date) >= 4 THEN SubSeq(date, 1, 4) ELSE <<>>
    IN  IF title = <<>> \/ artist = <<>> THEN first_recording(recs, k + 1, score)
        ELSE [found |-> TRUE, score |-> score, title |-> title, artist |-> artist,
              album |-> IF album = <<>> THEN UnknownAlbum ELSE album, year |-> year]

\* A faulty variant of scan_results: the score of a group is not asked.
RECURSIVE scan_results_any(_, _)
scan_results_any(results, k) ==
    IF k > Len(results) THEN NoResult
    ELSE LET r == first_recording(results[k].recordings, 1, results[k].score)
         IN  IF r.found THEN r ELSE scan_results_any(results, k + 1)

\* The loop over the result groups, from group k on.
RECURSIVE scan_results(_, _)
scan_results(results, k) ==
    IF k > Len(results) THEN NoResult
    ELSE IF results[k].score < MIN_CONFIDENCE THEN scan_results(results, k + 1)
    ELSE LET r == first_recording(results[k].recordings, 1, results[k].score)
         IN  IF r.found THEN r ELSE scan_results(results, k + 1)

\* response: what acoustid answers for the file; raised: the lookup threw.
fingerprint_and_lookup(response) ==
    IF response.raised THEN NoResult ELSE scan_results(response.results, 1)

sanitize_filename(name) == Strip(ReplaceEach(name, 1))

\* Path.stem of a name: the name without its last suffix.
stem(name) == IF endswith(name, DotFlac) THEN SubSeq(name, 1, Len(name) - Len(DotFlac)) ELSE name

\* The entry of track_info for file i, whose lookup came to result.
track_entry(flac_path, i, result, original_title) ==
    IF result.found
    THEN [path |-> flac_path, track_num |-> i, identified |-> TRUE,
          title |-> result.title, artist |-> result.artist,
          album |-> result.album, year |-> result.year, score |-> result.score]
    ELSE [path |-> flac_path, track_num |-> i, identified |-> FALSE,
          title |-> IF startswith(original_title, Pad2(i) \o Dash)
                    THEN SubSeq(original_title, 6, Len(original_title))
                    ELSE original_title,
          artist |-> <<>>, album |-> <<>>, year |-> <<>>, score |-> 0]

\* A faulty variant of analyze_tracks: a lookup that raises ends the loop.
RECURSIVE analyze_tracks_abort(_, _, _)
analyze_tracks_abort(flac_files, i, lookup) ==
    IF i > Len(flac_files) \/ lookup[flac_files[i]].raised THEN <<>>
    ELSE <<track_entry(flac_files[i], i, fingerprint_and_lookup(lookup[flac_files[i]]),
                       stem(basename(flac_files[i])))>>
             \o analyze_tracks_abort(flac_files, i + 1, lookup)

\* The tracks of analyze_album's loop, from file i on.
RECURSIVE analyze_tracks(_, _, _)
analyze_tracks(flac_files, i, lookup) ==
    IF i > Len(flac_files) THEN <<>>
    ELSE <<track_entry(flac_files[i], i, fingerprint_and_lookup(lookup[flac_files[i]]),
                       stem(basename(flac_files[i])))>>
             \o analyze_tracks(flac_files, i + 1, lookup)

Count(seq, x) == Cardinality({i \in 1..Len(seq) : seq[i] = x})

\* A faulty variant of most_common: the last one met wins a tie.
most_common_last(seq) ==
    LET best == CHOOSE i \in 1..Len(seq) :
                   /\ \A j \in 1..Len(seq) : Count(seq, seq[j]) <= Count(seq, seq[i])
                   /\ \A j \in (i + 1)..Len(seq) : seq[j] # seq[i] => Count(seq, seq[j]) < Count(seq, seq[i])
    IN  seq[best]

\* Counter(seq).most_common(1)[0][0]: the highest count, the first one met on a tie.
most_common(seq) ==
    LET best == CHOOSE i \in 1..Len(seq) :
                   /\ \A j \in 1..Len(seq) : Count(seq, seq[j]) <= Count(seq, seq[i])
                   /\ \A j \in 1..(i - 1) : Count(seq, seq[j]) < Count(seq, seq[i])
    IN  seq[best]

HasYear(t) == t.year # <<>>

\* A faulty variant of first_year: the year most tracks have.
first_year_common(tracks, k) ==
    IF SelectSeq(tracks, HasYear) = <<>> THEN <<>>
    ELSE most_common([i \in 1..Len(SelectSeq(tracks, HasYear)) |->
                         SelectSeq(tracks, HasYear)[i].year])

\* The first truthy year in track order.
RECURSIVE first_year(_, _)
first_year(tracks, k) ==
    IF k > Len(tracks) THEN <<>>
    ELSE IF tracks[k].year # <<>> THEN tracks[k].year
    ELSE first_year(tracks, k + 1)

\* artists.append(result['artist']) for every identified track
RECURSIVE artists_of(_)
artists_of(tracks) ==
    IF tracks = <<>> THEN <<>>
    ELSE (IF tracks[1].identified THEN <<tracks[1].artist>> ELSE <<>>)
             \o artists_of(Tail(tracks))

\* if result.get('album'): albums.append(result['album'])
RECURSIVE albums_of(_)
albums_of(tracks) ==
    IF tracks = <<>> THEN <<>>
    ELSE (IF tracks[1].identified /\ tracks[1].album # <<>> THEN <<tracks[1].album>> ELSE <<>>)
             \o albums_of(Tail(tracks))

NoAnalysis == [ok |-> FALSE, error |-> "", source_path |-> NoPath, artist |-> <<>>,
               album |-> <<>>, year |-> <<>>, tracks |-> <<>>, identified_count |-> 0,
               total_tracks |-> 0, artist_count |-> 0]

\* Check artist consensus, then the result.
analyze_consensus(album_path, n, track_info, artists, albums, identified_count, primary_artist, artist_count) ==
    IF 100 * artist_count < MIN_CONSENSUS_RATIO * Len(artists)
    THEN [NoAnalysis EXCEPT !.error = "No consensus on artist"]
    ELSE [ok |-> TRUE, error |-> "", source_path |-> album_path,
          artist |-> primary_artist,
          album |-> IF albums # <<>> THEN most_common(albums) ELSE UnknownAlbum,
          year |-> first_year(track_info, 1), tracks |-> track_info,
          identified_count |-> identified_count, total_tracks |-> n,
          artist_count |-> artist_count]

analyze_artist(album_path, n, track_info, artists, albums, identified_count, primary_artist) ==
    analyze_consensus(album_path, n, track_info, artists, albums, identified_count,
                      primary_artist, Count(artists, primary_artist))

\* A faulty variant of analyze_identified: the artists are asked for first.
analyze_identified_late(album_path, n, track_info, artists, albums, identified_count) ==
    IF artists = <<>> THEN [NoAnalysis EXCEPT !.error = "No artists identified"]
    ELSE IF 100 * identified_count < MIN_IDENTIFIED_RATIO * n
    THEN [NoAnalysis EXCEPT !.error = "Only some tracks identified"]
    ELSE analyze_artist(album_path, n, track_info, artists, albums, identified_count,
                        most_common(artists))

\* Check if enough tracks were identified.
analyze_identified(album_path, n, track_info, artists, albums, identified_count) ==
    IF 100 * identified_count < MIN_IDENTIFIED_RATIO * n
    THEN [NoAnalysis EXCEPT !.error = "Only some tracks identified"]
    ELSE IF artists = <<>> THEN [NoAnalysis EXCEPT !.error = "No artists identified"]
    ELSE analyze_artist(album_path, n, track_info, artists, albums, identified_count,
                        most_common(artists))

IsIdentified(t) == t.identified

analyze_info(album_path, n, track_info) ==
    analyze_identified(album_path, n, track_info, artists_of(track_info),
                       albums_of(track_info), Len(SelectSeq(track_info, IsIdentified)))

analyze_files(album_path, lookup, flac_files) ==
    IF flac_files = <<>> THEN [NoAnalysis EXCEPT !.error = "No FLAC files found"]
    ELSE analyze_info(album_path, Len(flac_files), analyze_tracks(flac_files, 1, lookup))

analyze_album(f, album_path, lookup) ==
    analyze_files(album_path, lookup, glob_flac(f, album_path))

\* audio['artist'] = ...; audio.save(), inside the try of apply_changes' loop
apply_tags(f, analysis, track, title, node) ==
    IF node.kind = "file" /\ node.valid
    THEN [f EXCEPT ![track.path].tags =
             [node.tags EXCEPT !.artist = analysis.artist,
                               !.album = analysis.album,
                               !.title = title,
                               !.tracknumber = Str(track.track_num),
                               !.date = IF analysis.year # <<>> THEN analysis.year
                                        ELSE node.tags.date]]
    ELSE f

\* One track of apply_changes: tags, then the move, unless it raises.
apply_track(f, analysis, new_album_path, raises, track, title) ==
    IF raises THEN apply_tags(f, analysis, track, title, f[track.path])
    ELSE move(apply_tags(f, analysis, track, title, f[track.path]), track.path,
              new_album_path
                  \o <<Pad2(track.track_num) \o Dash \o sanitize_filename(title) \o DotFlac>>)

\* The loop of apply_changes over the tracks, from track k on. failAt is the
\* track whose shutil.move raises (0: none); the loop catches it and goes on.
RECURSIVE apply_tracks(_, _, _, _, _)
apply_tracks(f, analysis, new_album_path, k, failAt) ==
    IF k > Len(analysis.tracks) THEN f
    ELSE apply_tracks(
             apply_track(f, analysis, new_album_path, failAt = k, analysis.tracks[k],
                         IF analysis.tracks[k].title # <<>> THEN analysis.tracks[k].title
                         ELSE TrackWord \o Str(analysis.tracks[k].track_num)),
             analysis, new_album_path, k + 1, failAt)

\* os.rmdir(p), which an OSError (p missing or not empty) leaves undone.
try_rmdir(f, p) == IF isdir(f, p) /\ listdir(f, p) = {} THEN rmdir(f, p) ELSE f

apply_to(f, analysis, failAt, new_album_path) ==
    IF exists(f, new_album_path)
    THEN [fs |-> f, result |-> "Destination already exists", dst |-> new_album_path]
    ELSE [fs |-> try_rmdir(
                     try_rmdir(apply_tracks(makedirs(f, new_album_path), analysis,
                                            new_album_path, 1, failAt),
                               analysis.source_path),
                     UNKNOWN_DIR),
          result |-> "applied", dst |-> new_album_path]

apply_changes(f, analysis, dry_run, failAt) ==
    IF dry_run THEN [fs |-> f, result |-> "dry run", dst |-> NoPath]
    ELSE apply_to(f, analysis, failAt,
                  MUSIC_DIR \o <<sanitize_filename(analysis.artist),
                                 sanitize_filename(analysis.album)>>)

\* The loop of main over the folders, from folder k on; calls collects what each
\* folder came to.
RECURSIVE main_loop(_, _, _, _, _, _, _)

\* if args.apply: apply_changes(analysis, dry_run=False) else: the hint
main_applied(folders, k, apply_flag, lookup, failAt, calls, a) ==
    main_loop(a.fs, folders, k + 1, apply_flag, lookup, failAt,
              Append(calls, [src |-> folders[k], dst |-> a.dst, result |-> a.result]))

\* A faulty variant of main_folder: args.apply is not asked.
main_folder_applies(f, folders, k, apply_flag, lookup, failAt, calls, analysis) ==
    IF ~analysis.ok
    THEN main_loop(f, folders, k + 1, apply_flag, lookup, failAt,
                   Append(calls, [src |-> folders[k], dst |-> NoPath,
                                  result |-> analysis.error]))
    ELSE main_applied(folders, k, apply_flag, lookup, failAt, calls,
                      apply_changes(f, analysis, FALSE, failAt))

main_folder(f, folders, k, apply_flag, lookup, failAt, calls, analysis) ==
    IF ~analysis.ok
    THEN main_loop(f, folders, k + 1, apply_flag, lookup, failAt,
                   Append(calls, [src |-> folders[k], dst |-> NoPath,
                                  result |-> analysis.error]))
    ELSE main_applied(folders, k, apply_flag, lookup, failAt, calls,
                      IF apply_flag THEN apply_changes(f, analysis, FALSE, failAt)
                      ELSE [fs |-> f, result |-> "preview", dst |-> NoPath])

main_loop(f, folders, k, apply_flag, lookup, failAt, calls) ==
    IF k > Len(folders) THEN [fs |-> f, calls |-> calls]
    ELSE main_folder(f, folders, k, apply_flag, lookup, failAt, calls,
                     analyze_album(f, folders[k], lookup))

\* main: arg is the folder given on the command line (NoPath: none), order the
\* order in which os.listdir names the folders of UNKNOWN_DIR.
main(f, apply_flag, arg, order, lookup, failAt) ==
    IF arg # NoPath THEN main_loop(f, <<arg>>, 1, apply_flag, lookup, failAt, <<>>)
    ELSE IF ~exists(f, UNKNOWN_DIR) THEN [fs |-> f, calls |-> <<>>]
    ELSE main_loop(f, order, 1, apply_flag, lookup, failAt, <<>>)

----------------------------------------------------------------------------
(* The library the model starts from, and the inputs of the handlers.      *)

ArtistA == <<"A">>
ArtistC == <<"C", "/">>
AlbumB == <<"B">>
TitleS == <<"S">>
FolderX == <<"X">>
FolderY == <<"Y">>
FileA == <<"a">> \o DotFlac
FileB == <<"b">> \o DotFlac
Cover == <<"c">>

TagsOfB ==
    [NoTags EXCEPT !.artist = ArtistA, !.albumartist = ArtistA, !.album = AlbumB,
                   !.title = TitleS, !.tracknumber = Str(1), !.tracktotal = Str(1)]

\* Two ripped albums under "Unknown Artist" (X: two tracks and a cover image,
\* Y: one file mutagen cannot open), one tagged album A/B, an empty backup area.
InitialFs ==
    LET x == UNKNOWN_DIR \o <<FolderX>>
        y == UNKNOWN_DIR \o <<FolderY>>
        b == MUSIC_DIR \o <<ArtistA, AlbumB>>
    IN  (MUSIC_DIR :> DirNode) @@ (UNKNOWN_DIR :> DirNode) @@ (x :> DirNode)
        @@ ((x \o <<FileA>>) :> FileNode(NoTags, TRUE))
        @@ ((x \o <<FileB>>) :> FileNode([NoTags EXCEPT !.pictures = <<"o">>], TRUE))
        @@ ((x \o <<Cover>>) :> FileNode(NoTags, FALSE))
        @@ (y :> DirNode)
        @@ ((y \o <<FileA>>) :> FileNode(NoTags, FALSE))
        @@ ((MUSIC_DIR \o <<ArtistA>>) :> DirNode) @@ (b :> DirNode)
        @@ ((b \o <<Pad2(1) \o Dash \o TitleS \o DotFlac>>) :> FileNode(TagsOfB, TRUE))
        @@ (<<BACKUP_DIR[1]>> :> DirNode) @@ (BACKUP_DIR :> DirNode)

Init ==
    /\ fs = InitialFs
    /\ history = <<>>
    /\ clock = 0
    /\ log = <<>>
    /\ reversed = {}
    /\ runs = 0
    /\ answers = <<>>
    /\ inflight = <<>>

\* The album folders of the library.
AlbumDirs(f) ==
    {p \in DOMAIN f : Len(p) = Len(MUSIC_DIR) + 2 /\ IsPrefix(MUSIC_DIR, p) /\ isdir(f, p)}

\* The folders the web handlers are called on: every album folder but one named Y,
\* which only the batch tagger touches.
WebDirs(f) == {p \in AlbumDirs(f) : basename(p) # FolderY}

\* A path that does not exist.
MissingPath == MUSIC_DIR \o <<ArtistA, <<"Z">>>>

Form(path, artist, album_name, titles) ==
    [path |-> path, artist |-> artist, album_name |-> album_name, year |-> <<"1">>,
     genre |-> <<>>, disc_number |-> <<>>, disc_total |-> <<>>, titles |-> titles,
     art |-> FALSE]

\* Every album folder saved under either artist, and one form without an album name.
Forms(f) ==
    {Form(p, a, AlbumB, <<TitleS>>) : p \in WebDirs(f) \cup {MissingPath},
                                      a \in {ArtistA, ArtistC}}
        \cup {Form(MUSIC_DIR \o <<ArtistA, AlbumB>>, ArtistA, <<" ">>, <<>>)}

----------------------------------------------------------------------------
(* The answers of the identification service.                              *)

Recording(title, artist, album, date) ==
    [title |-> title, artists |-> <<artist>>,
     releases |-> <<[title |-> album, date |-> date]>>]

ResponseErr == [raised |-> TRUE, results |-> <<>>]

ResponseA ==
    [raised |-> FALSE,
     results |-> <<[score |-> 90,
                    recordings |-> <<Recording(<<>>, ArtistA, AlbumB, <<>>),
                                     Recording(TitleS, ArtistA, AlbumB,
                                               <<"2", "0", "0", "1", "-", "0", "5">>)>>]>>]

ResponseC ==
    [raised |-> FALSE,
     results |-> <<[score |-> 50,
                    recordings |-> <<Recording(TitleS, ArtistA, AlbumB, <<>>)>>],
                   [score |-> 85,
                    recordings |-> <<Recording(TitleS, ArtistC, AlbumB, <<"9", "9">>)>>]>>]

Responses == {ResponseErr, ResponseA, ResponseC}

\* The service's answers by file: ra for the files named a.flac, rb for the others.
LookupBy(f, ra, rb) ==
    [q \in {x \in DOMAIN f : endswith(basename(x), DotFlac)} |->
        IF basename(q) = FileA THEN ra ELSE rb]

\* The orders in which os.listdir may name the members of S.
Orders(S) == {o \in [1..Cardinality(S) -> S] : \A i, j \in DOMAIN o : o[i] = o[j] => i = j}

----------------------------------------------------------------------------
(* The actions: one run of a handler each.                                 *)

Counted(f, h) == IF f # fs \/ h # history THEN runs + 1 ELSE runs

\* The state after a run of save or delete_album that came to r.
Saved(r, ok) ==
    /\ fs' = r.fs
    /\ history' = r.history
    /\ log' = IF r.result = ok THEN Append(log, r.history[Len(r.history)]) ELSE log
    /\ runs' = Counted(r.fs, r.history)
    /\ UNCHANGED <<clock, reversed, answers, inflight>>

Save(form, failAt) == Saved(save(fs, history, clock, form, failAt), "Success")

Undone(r) ==
    /\ fs' = r.fs
    /\ history' = r.history
    /\ reversed' = IF r.result = "Undo successful"
                   THEN reversed \cup {Len(log) - Len(history) + r.sel}
                   ELSE reversed
    /\ UNCHANGED <<clock, log, runs, answers, inflight>>

Undo == Undone(undo(fs, history))

Delete(path, keep_backup) ==
    Saved(delete_album(fs, history, clock, path, keep_backup), "Deleted")

Ran(r) ==
    /\ fs' = r.fs
    /\ runs' = Counted(r.fs, history)
    /\ UNCHANGED <<history, clock, log, reversed, answers, inflight>>

Main(apply_flag, arg, order, lookup, failAt) ==
    Ran(main(fs, apply_flag, arg, order, lookup, failAt))

Tick ==
    /\ clock < MaxClock
    /\ clock' = clock + 1
    /\ UNCHANGED <<fs, history, log, reversed, runs, answers, inflight>>

SaveStep == runs < MaxRuns /\ \E form \in Forms(fs), failAt \in 0..1 : Save(form, failAt)

UndoStep == Undo

DeleteStep ==
    /\ runs < MaxRuns
    /\ \E path \in WebDirs(fs) \cup {MissingPath}, keep_backup \in BOOLEAN :
           Delete(path, keep_backup)

\* main with a folder named on the command line
MainArgStep ==
    /\ runs < MaxRuns
    /\ \E apply_flag \in BOOLEAN, arg \in AlbumDirs(fs), failAt \in 0..1 :
       \E ra \in Responses, rb \in Responses :
           Main(apply_flag, arg, <<>>, LookupBy(fs, ra, rb), failAt)

\* main over every folder of UNKNOWN_DIR
MainAllStep ==
    /\ runs < MaxRuns
    /\ \E apply_flag \in BOOLEAN, failAt \in 0..1 :
       LET folders == {d \in listdir(fs, UNKNOWN_DIR) : isdir(fs, d)}
       IN  \E order \in Orders(folders), ra \in Responses, rb \in Responses :
               Main(apply_flag, NoPath, order, LookupBy(fs, ra, rb), failAt)

Next == SaveStep \/ UndoStep \/ DeleteStep \/ MainArgStep \/ MainAllStep \/ Tick

Spec == Init /\ [][Next]_vars

----------------------------------------------------------------------------
(* The ledger in the long run: the album A/B is saved in place until WarmUp *)
(* entries are recorded, and from then on it is saved under either artist,  *)
(* deleted and restored, until MaxAppends entries were appended.            *)

HomeB == MUSIC_DIR \o <<ArtistA, AlbumB>>

CapDirs(f) == {p \in AlbumDirs(f) : basename(p) = AlbumB}

WarmUpStep ==
    /\ Len(log) < WarmUp
    /\ Save(Form(HomeB, ArtistA, AlbumB, <<TitleS>>), 0)

SaveCapStep ==
    /\ WarmUp <= Len(log) /\ Len(log) < MaxAppends
    /\ \E p \in CapDirs(fs), a \in {ArtistA, ArtistC} : Save(Form(p, a, AlbumB, <<TitleS>>), 0)

DeleteCapStep ==
    /\ WarmUp <= Len(log) /\ Len(log) < MaxAppends
    /\ \E p \in CapDirs(fs), keep_backup \in BOOLEAN : Delete(p, keep_backup)

UndoCapStep == WarmUp <= Len(log) /\ Undo

NextCap == WarmUpStep \/ SaveCapStep \/ DeleteCapStep \/ UndoCapStep

SpecCap == Init /\ [][NextCap]_vars

----------------------------------------------------------------------------
(* A ripped album: the ripper puts the tracks of a disc into a folder of    *)
(* UNKNOWN_DIR one by one, the service has an answer for each of them, and  *)
(* the batch tagger is run on the folder.                                   *)

FolderR == <<"R">>
RipDir == UNKNOWN_DIR \o <<FolderR>>
AlbumD == <<"D">>

\* A recording that is on no release.
Single(title, artist) == [title |-> title, artists |-> <<artist>>, releases |-> <<>>]

ResponseD ==
    [raised |-> FALSE,
     results |-> <<[score |-> 90, recordings |-> <<Single(TitleS, ArtistA)>>]>>]

ResponseE ==
    [raised |-> FALSE,
     results |-> <<[score |-> 80,
                    recordings |-> <<Recording(TitleS, ArtistC, AlbumD,
                                               <<"1", "9", "9", "8">>)>>]>>]

AlbumAnswers == {ResponseErr, ResponseA, ResponseD, ResponseE}

\* The tracks ripped so far, in the order of their names.
Ripped(f) == IF exists(f, RipDir) THEN glob_flac(f, RipDir) ELSE <<>>

\* How often the answer changes from one track of seq to the next.
Changes(seq) == Cardinality({i \in 1..(Len(seq) - 1) : seq[i] # seq[i + 1]})

RippedAnswers(f, a) == [i \in 1..Len(Ripped(f)) |-> a[Ripped(f)[i]]]

\* The ripper writes the next track, for which the service answers response.
Rip(response) ==
    /\ fs' = makedirs(fs, RipDir)
                @@ ((RipDir \o <<Pad2(Len(Ripped(fs)) + 1) \o DotFlac>>) :> FileNode(NoTags, TRUE))
    /\ answers' = ((RipDir \o <<Pad2(Len(Ripped(fs)) + 1) \o DotFlac>>) :> response) @@ answers
    /\ UNCHANGED <<history, clock, log, reversed, runs, inflight>>

RipStep ==
    /\ runs = 0 /\ Len(Ripped(fs)) < MaxTracks
    /\ \E response \in AlbumAnswers :
           /\ Changes(Append(RippedAnswers(fs, answers), response)) <= MaxChanges
           /\ Rip(response)

\* main on the ripped folder, with or without --apply
BatchStep ==
    /\ runs < MaxBatch /\ exists(fs, RipDir)
    /\ \E apply_flag \in BOOLEAN : Main(apply_flag, RipDir, <<>>, answers, 0)

NextAlbum == RipStep \/ BatchStep

SpecAlbum == Init /\ [][NextAlbum]_vars

----------------------------------------------------------------------------
(* One ripped track, for which the service answers with up to two result    *)
(* groups of up to two recordings each.                                     *)

\* The sequences over S of length 0, 1 or 2.
UpToTwo(S) == {<<>>} \cup {<<x>> : x \in S} \cup {<<x, y>> : x \in S, y \in S}

\* Two recordings with title and artist, one without title, one without artist.
LookupRecordings ==
    {Recording(TitleS, ArtistA, AlbumD, <<>>), Recording(AlbumD, ArtistC, AlbumD, <<>>),
     Recording(<<>>, ArtistA, AlbumD, <<>>),
     [title |-> TitleS, artists |-> <<>>, releases |-> <<>>]}

LookupAnswers ==
    {ResponseErr} \cup
    {[raised |-> FALSE, results |-> groups] :
        groups \in UpToTwo({[score |-> s, recordings |-> recs] :
                               s \in {79, 80, 95}, recs \in UpToTwo(LookupRecordings)})}

LookupRipStep ==
    /\ runs = 0 /\ Len(Ripped(fs)) < LookupTracks
    /\ \E response \in LookupAnswers : Rip(response)

NextLookup == LookupRipStep \/ BatchStep

SpecLookup == Init /\ [][NextLookup]_vars

----------------------------------------------------------------------------
(* Names: an album is saved, or tagged by the batch tagger, under names     *)
(* made of the forbidden characters, the space and a letter, and under     *)
(* artists and titles that make a compilation or look like one.            *)

\* The names of up to MaxName characters.
NameInputs ==
    UNION {[1..k -> {Forbidden[i] : i \in 1..Len(Forbidden)} \cup {" ", "a"}] : k \in 0..MaxName}

ArtistInputs ==
    {ArtistA, <<"v", "a">>, <<"V", "A">>, <<"O", "S", "T">>, <<"P", "o", "s", "t">>,
     <<"V", "a", "r", "i", "o", "u", "s">>, <<"s", "a", "m", "p", "l", "e", "r", "s">>}

TitleInputs == {<<>>, TitleS, ArtistA \o Dash \o TitleS, ArtistC \o Dash \o TitleS \o Dash \o AlbumD}

\* save with the one name as artist, album and title of the first track
SaveNameStep ==
    /\ runs < MaxForms
    /\ \E p \in WebDirs(fs), name \in NameInputs : Save(Form(p, name, name, <<name>>), 0)

SaveCompilationStep ==
    /\ runs < MaxForms
    /\ \E p \in WebDirs(fs), artist \in ArtistInputs, title \in TitleInputs :
           Save(Form(p, artist, AlbumB, <<title>>), 0)

\* main --apply on a folder the service names title, artist and release of alike
ApplyNameStep ==
    /\ runs < MaxForms
    /\ \E arg \in AlbumDirs(fs), name \in NameInputs :
           Main(TRUE, arg, <<>>,
                LookupBy(fs, [raised |-> FALSE,
                              results |-> <<[score |-> 90,
                                             recordings |-> <<Recording(name, name, name, <<>>)>>]>>],
                         ResponseErr),
                0)

NextNames == SaveNameStep \/ SaveCompilationStep \/ ApplyNameStep

SpecNames == Init /\ [][NextNames]_vars

----------------------------------------------------------------------------
(* A library with an album folder directly under MUSIC_DIR, two album       *)
(* folders whose names end alike, and a directory beside MUSIC_DIR whose    *)
(* path begins with MUSIC_DIR's: saved, deleted and restored MaxShelf times.*)

MaxShelf == 2

AlbumGB == <<"G", "_", "B">>

\* A directory outside MUSIC_DIR whose path starts with the same characters.
BesideRoot == <<MUSIC_DIR[1] \o <<"2">>>>

ShelfFs ==
    LET x == MUSIC_DIR \o <<FolderX>>
        b == MUSIC_DIR \o <<ArtistA, AlbumB>>
        g == MUSIC_DIR \o <<ArtistA, AlbumGB>>
        o == BesideRoot \o <<FolderX>>
    IN  (MUSIC_DIR :> DirNode) @@ (x :> DirNode)
        @@ ((x \o <<FileA>>) :> FileNode(NoTags, TRUE))
        @@ ((x \o <<Cover>>) :> FileNode(NoTags, FALSE))
        @@ ((MUSIC_DIR \o <<ArtistA>>) :> DirNode) @@ (b :> DirNode) @@ (g :> DirNode)
        @@ ((b \o <<Pad2(1) \o Dash \o TitleS \o DotFlac>>) :> FileNode(TagsOfB, TRUE))
        @@ ((g \o <<FileA>>) :> FileNode(NoTags, TRUE))
        @@ (BesideRoot :> DirNode) @@ (o :> DirNode)
        @@ ((o \o <<FileA>>) :> FileNode(NoTags, TRUE))
        @@ (<<BACKUP_DIR[1]>> :> DirNode) @@ (BACKUP_DIR :> DirNode)

InitShelf ==
    /\ fs = ShelfFs
    /\ history = <<>>
    /\ clock = 0
    /\ log = <<>>
    /\ reversed = {}
    /\ runs = 0
    /\ answers = <<>>
    /\ inflight = <<>>

\* The folders of the library that hold tracks.
ShelfDirs(f) ==
    {p \in DOMAIN f : IsPrefix(MUSIC_DIR, p) /\ isdir(f, p) /\ glob_flac(f, p) # <<>>}

\* Every such folder saved as album B of artist X or of artist A.
ShelfForms(f) ==
    {Form(p, a, AlbumB, <<TitleS>>) : p \in ShelfDirs(f), a \in {FolderX, ArtistA}}

\* The paths posted to delete_album: the folders with tracks, MUSIC_DIR
\* itself, and the folder beside it.
ShelfPaths(f) == ShelfDirs(f) \cup {MUSIC_DIR, BesideRoot \o <<FolderX>>}

ShelfSaveStep == runs < MaxShelf /\ \E form \in ShelfForms(fs) : Save(form, 0)

ShelfDeleteStep ==
    /\ runs < MaxShelf
    /\ \E path \in ShelfPaths(fs), keep_backup \in BOOLEAN : Delete(path, keep_backup)

ShelfUndoStep == Undo

NextShelf == ShelfSaveStep \/ ShelfDeleteStep \/ ShelfUndoStep

SpecShelf == InitShelf /\ [][NextShelf]_vars

----------------------------------------------------------------------------
(* Two save requests at once. app.run serves each request on a thread of   *)
(* its own and the handlers take no lock, so the steps of two saves         *)
(* interleave: the backup and the test of the destination, the writes to    *)
(* the library, the read of the history file, and the write of it.          *)

MaxRequests == 2

\* save up to the test of new_dir: the locals it goes on with, and whether
\* it returned (result is the message then).
save_tested(c, b, flac_files) ==
    [fs |-> b.fs, c |-> c, flac_files |-> flac_files, backup_path |-> b.backup_path,
     result |-> IF ~c.same_location /\ exists(b.fs, c.new_dir)
                THEN "Folder already exists" ELSE ""]

save_begin(f, now, form) ==
    save_tested(save_context(form, 0, Strip(form.artist), Strip(form.album_name),
                             MUSIC_DIR \o <<sanitize(Strip(form.artist)),
                                            sanitize(Strip(form.album_name))>>),
                create_backup(f, form.path, now), glob_flac(f, form.path))

\* A faulty variant of save_moved: new_dir is tested again before the writes.
save_moved_retested(f, c, flac_files) ==
    IF ~c.same_location /\ exists(f, c.new_dir) THEN f
    ELSE LET t == save_tracks(IF c.same_location THEN f ELSE makedirs(f, c.new_dir),
                              flac_files, 1, c)
         IN  IF c.same_location THEN t.fs ELSE remove_source(t.fs, c.folder_path)

\* save from makedirs to the cleanup of the source, on the files as they are now.
save_moved(f, c, flac_files) ==
    LET t == save_tracks(IF c.same_location THEN f ELSE makedirs(f, c.new_dir),
                         flac_files, 1, c)
    IN  IF c.same_location THEN t.fs ELSE remove_source(t.fs, c.folder_path)

\* The entry save hands to add_history_entry.
save_entry(c, backup_path) ==
    Entry(c.artist, c.album_name,
          IF c.same_location THEN [kind |-> "Updated metadata", arg |-> <<>>]
          ELSE [kind |-> "Moved from", arg |-> basename(c.folder_path)],
          c.folder_path, c.new_dir, backup_path)

Requests == 1..MaxRequests

\* Each request is posted for a folder of its own: the ripped album X, the
\* album A/B, the ripped album Y.
RaceSource(r) ==
    IF r = 1 THEN UNKNOWN_DIR \o <<FolderX>>
    ELSE IF r = 2 THEN HomeB ELSE UNKNOWN_DIR \o <<FolderY>>

RaceForms(r) == {Form(RaceSource(r), a, AlbumB, <<TitleS>>) : a \in {ArtistA, ArtistC}}

At(r, pc) == r \in DOMAIN inflight /\ inflight[r].pc = pc

\* The request r arrives and runs up to the test of new_dir. found: new_dir
\* was there when the request wrote to it.
Begun(r, s) ==
    /\ fs' = s.fs
    /\ inflight' = (r :> [pc |-> IF s.result = "" THEN "tested" ELSE "done",
                          c |-> s.c, flac_files |-> s.flac_files,
                          backup_path |-> s.backup_path, seen |-> <<>>,
                          found |-> FALSE, wrote |-> FALSE]) @@ inflight
    /\ UNCHANGED <<history, clock, log, reversed, runs, answers>>

BeginStep ==
    \E r \in Requests \ DOMAIN inflight :
        \E form \in RaceForms(r) :
            exists(fs, form.path) /\ Begun(r, save_begin(fs, clock, form))

\* makedirs, the loop over the tracks, the cleanup of the source.
MoveStep ==
    \E r \in Requests :
        /\ At(r, "tested")
        /\ fs' = save_moved(fs, inflight[r].c, inflight[r].flac_files)
        /\ inflight' = [inflight EXCEPT ![r].pc = "moved",
                                        ![r].found = exists(fs, inflight[r].c.new_dir)]
        /\ UNCHANGED <<history, clock, log, reversed, runs, answers>>

\* add_history_entry: history = load_history()
LoadStep ==
    \E r \in Requests :
        /\ At(r, "moved")
        /\ inflight' = [inflight EXCEPT ![r].pc = "loaded", ![r].seen = load_history(history)]
        /\ UNCHANGED <<fs, history, clock, log, reversed, runs, answers>>

\* add_history_entry: the id, the append, the cut to the cap, save_history
WriteStep ==
    \E r \in Requests :
        /\ At(r, "loaded")
        /\ history' = add_history_entry(inflight[r].seen,
                                        save_entry(inflight[r].c, inflight[r].backup_path),
                                        clock)
        /\ log' = Append(log, history'[Len(history')])
        /\ inflight' = [inflight EXCEPT ![r].pc = "done", ![r].wrote = TRUE]
        /\ UNCHANGED <<fs, clock, reversed, runs, answers>>

NextRace == BeginStep \/ MoveStep \/ LoadStep \/ WriteStep \/ Tick

SpecRace == Init /\ [][NextRace]_vars

----------------------------------------------------------------------------
(* Properties.                                                             *)

\* The newest entry of h that is not undone and has a backup path (0: none).
NewestOpen(h) ==
    LET open == {i \in 1..Len(h) : ~h[i].undone /\ h[i].backup_path # NoPath}
    IN  IF open = {} THEN 0 ELSE CHOOSE i \in open : \A j \in open : j <= i

\* The newest such entry whose backup is still on disk (0: none).
NewestOnDisk(f, h) ==
    LET open == {i \in 1..Len(h) : /\ ~h[i].undone
                                   /\ h[i].backup_path # NoPath
                                   /\ exists(f, h[i].backup_path)}
    IN  IF open = {} THEN 0 ELSE CHOOSE i \in open : \A j \in open : j <= i

\* Every entry of h but the last is undone or has no backup path.
OthersClosed(h) == \A i \in 1..(Len(h) - 1) : h[i].undone \/ h[i].backup_path = NoPath

\* r1 is a save that moved the album.
MovedBy(r1) == r1.result = "Success" /\ normpath(r1.dst) # normpath(r1.src)

RoundTripEnds(r2, r3) == OthersClosed(r2.history) => r3.result = "Nothing to undo"

RoundTripUndone(r1, r2) ==
    /\ r2.result = "Undo successful"
    /\ ~exists(r2.fs, r1.dst)
    /\ exists(r2.fs, r1.src)
    /\ Subtree(r2.fs, r1.src) = Subtree(fs, r1.src)
    /\ r2.history[Len(r2.history)].undone
    /\ RoundTripEnds(r2, undo(r2.fs, r2.history))

RoundTrip(r1) == MovedBy(r1) => RoundTripUndone(r1, undo(r1.fs, r1.history))

\* C1: a save that moves an album from S to an absent D, followed by undo,
\* leaves no D, S with the files and tags it had before the save, the save's
\* entry marked undone, and a further undo with nothing to undo when no other
\* entry has a backup.
C1_RoundTrip == \A form \in Forms(fs) : RoundTrip(save(fs, history, clock, form, 0))

\* The cap was passed, and a save that moves an album can follow.
C1_PastCap ==
    /\ Len(log) > HistoryCap
    /\ \E form \in Forms(fs) : MovedBy(save(fs, history, clock, form, 0))

SaveRefused(r) ==
    (r.dst # NoPath /\ exists(fs, r.dst) /\ normpath(r.dst) # normpath(r.src))
        => /\ r.result = "Folder already exists"
           /\ Subtree(r.fs, r.src) = Subtree(fs, r.src)
           /\ Subtree(r.fs, r.dst) = Subtree(fs, r.dst)

ApplyRefusedAs(analysis, a) ==
    (a.dst # NoPath /\ exists(fs, a.dst) /\ a.dst # analysis.source_path)
        => /\ a.result = "Destination already exists"
           /\ Subtree(a.fs, analysis.source_path) = Subtree(fs, analysis.source_path)
           /\ Subtree(a.fs, a.dst) = Subtree(fs, a.dst)

ApplyRefused(analysis) ==
    analysis.ok => \A failAt \in 0..1 :
                       ApplyRefusedAs(analysis, apply_changes(fs, analysis, FALSE, failAt))

\* C2: a save, or an apply_changes, whose destination exists and is not the
\* source ends with the destination-exists error, and the source and the
\* destination hold the same files and tags after the call as before it.
C2_DestinationExists ==
    /\ \A form \in Forms(fs), failAt \in 0..1 :
           SaveRefused(save(fs, history, clock, form, failAt))
    /\ \A arg \in AlbumDirs(fs), ra \in Responses, rb \in Responses :
           ApplyRefused(analyze_album(fs, arg, LookupBy(fs, ra, rb)))

RefusedSave(r) == r.result = "Folder already exists" /\ r.fs # fs

RefusedApply(analysis) ==
    analysis.ok /\ apply_changes(fs, analysis, FALSE, 0).result = "Destination already exists"

\* Both handlers refuse a destination here, after earlier runs changed the library.
C2_Refused ==
    /\ fs # InitialFs
    /\ \E form \in Forms(fs) : RefusedSave(save(fs, history, clock, form, 0))
    /\ \E arg \in AlbumDirs(fs), ra \in Responses :
           RefusedApply(analyze_album(fs, arg, LookupBy(fs, ra, ra)))

UndoTarget(r) ==
    /\ r.sel = NewestOpen(history)
    /\ (r.sel # 0 /\ ~exists(fs, history[r.sel].backup_path))
           => /\ r.result = "Cannot undo: Backup not found"
              /\ r.fs = fs
              /\ r.history = history

\* C3, as the code has it: undo acts on the newest entry that is not undone and
\* has a backup path, whether or not that backup is on disk; when it is not,
\* undo reports the missing backup and changes neither files nor history.
C3_UndoTarget == UndoTarget(undo(fs, history))

TargetOnDisk(r) == r.sel = NewestOnDisk(fs, history)

\* C3: undo acts on the newest entry that is not undone, has a backup path and
\* whose backup is still on disk; an entry whose backup is gone is skipped.
C3_SkipsMissing == TargetOnDisk(undo(fs, history))

\* The newest open entry has lost its backup, an older one still has its own,
\* and undo reports the missing backup.
C3_MissingNewest ==
    /\ NewestOpen(history) # 0
    /\ NewestOnDisk(fs, history) # 0
    /\ NewestOnDisk(fs, history) < NewestOpen(history)
    /\ undo(fs, history).result = "Cannot undo: Backup not found"

\* An entry undo has restored is marked undone and is not undo's target again.
NoRepeat(r) ==
    \A p \in reversed :
        LET i == p - (Len(log) - Len(history))
        IN  i >= 1 => history[i].undone /\ r.sel # i

\* C4: once undo has reversed an entry, the entry is marked undone and no later
\* undo selects it again, whatever saves, deletes and undos follow, also when
\* more than 100 entries have been appended.
C4_NoRepeat == NoRepeat(undo(fs, history))

OnlyNewest(r) == r.result = "Undo successful" => r.sel = Len(history)

NewerClosed(r) ==
    /\ r.result = "Undo successful"
           => \A j \in (r.sel + 1)..Len(history) :
                  history[j].undone \/ history[j].backup_path = NoPath
    /\ (NewestOpen(history) # 0 /\ exists(fs, history[NewestOpen(history)].backup_path))
           => r.result = "Undo successful" /\ r.sel = NewestOpen(history)

OlderRestored(r) == r.result = "Undo successful" /\ r.sel < Len(history)

C6_IdsIncreasing ==
    \A i \in 1..Len(history), j \in 1..Len(history) :
        i < j => history[i].id < history[j].id

\* The entry e of the stored history is the appended entry l, undone or not.
SameEntry(e, l) == [e EXCEPT !.undone = FALSE] = l

\* C7: after n appends the stored history holds the min(n, 100) entries
\* appended last, in the order of their appending.
C7_Capped ==
    /\ Len(history) = IF Len(log) < 100 THEN Len(log) ELSE 100
    /\ \A i \in 1..Len(history) :
           SameEntry(history[i], log[Len(log) - Len(history) + i])

\* More entries were appended than the history holds.
C7_Discarded == Len(log) > Len(history) + 1 /\ Len(history) = 100

\* The length of a backup's name before the album folder's name.
StampLen == Len(BackupWord) + Len(strftime(0)) + 1

\* The name of the album folder the backup b was made of.
BackedUpName(b) == SubSeq(basename(b), StampLen + 1, Len(basename(b)))

\* After a backup of a folder named n, b.backup_path is the only backup of n.
OnlyBackup(n, b) ==
    \A d \in listdir(b.fs, BACKUP_DIR) : BackedUpName(d) = n => d = b.backup_path

SaveRecorded(r) ==
    r.result \in {"Success", "Internal Server Error"}
        => /\ exists(r.fs, r.backup)
           /\ Subtree(r.fs, r.backup) = Subtree(fs, r.src)
           /\ r.history # history
           /\ ~r.history[Len(r.history)].undone

\* Of every folder a batch run applied, the backup area holds a copy as it was.
BatchBackedUp(r) ==
    \A k \in 1..Len(r.calls) :
        r.calls[k].result = "applied"
            => \E d \in listdir(r.fs, BACKUP_DIR) :
                   Subtree(r.fs, d) = Subtree(fs, r.calls[k].src)

\* C9: every save, in move or in-place mode, and every batch run with the
\* apply flag takes a backup of the source before it changes a tag or a file,
\* and records a history entry with undone=false.
C9_BackupAndEntry ==
    /\ \A form \in Forms(fs), failAt \in 0..1 :
           SaveRecorded(save(fs, history, clock, form, failAt))
    /\ \A arg \in AlbumDirs(fs), ra \in Responses, rb \in Responses :
           BatchBackedUp(main(fs, TRUE, arg, <<>>, LookupBy(fs, ra, rb), 0))

\* The run changed no file, and applied nothing.
Untouched(r) == r.fs = fs /\ \A k \in 1..Len(r.calls) : r.calls[k].result # "applied"

\* The folders of UNKNOWN_DIR.
UnknownFolders == {d \in listdir(fs, UNKNOWN_DIR) : isdir(fs, d)}

\* C10: a batch run without the apply flag, whatever the folders and whatever
\* the lookups answer, creates, moves, retags and removes nothing.
C10_DryRun ==
    /\ \A arg \in AlbumDirs(fs), ra \in Responses, rb \in Responses, failAt \in 0..1 :
           Untouched(main(fs, FALSE, arg, <<>>, LookupBy(fs, ra, rb), failAt))
    /\ \A order \in Orders(UnknownFolders), ra \in Responses, rb \in Responses :
           Untouched(main(fs, FALSE, NoPath, order, LookupBy(fs, ra, rb), 0))

Previewed(r) == r.fs = fs /\ \E k \in 1..Len(r.calls) : r.calls[k].result = "preview"

\* A run over the folders of UNKNOWN_DIR previews a folder that the same run
\* with the apply flag reorganizes.
C10_Previewed ==
    /\ fs # InitialFs
    /\ \E order \in Orders(UnknownFolders), ra \in Responses :
           /\ Previewed(main(fs, FALSE, NoPath, order, LookupBy(fs, ra, ra), 0))
           /\ main(fs, TRUE, NoPath, order, LookupBy(fs, ra, ra), 0).fs # fs

----------------------------------------------------------------------------
(* The batch tagger's analysis of the ripped album.                        *)

\* What the service's answers come to, track by track.
Lookups(f, a) == [i \in 1..Len(Ripped(f)) |-> fingerprint_and_lookup(a[Ripped(f)[i]])]

\* The tracks among results that were identified.
IdentifiedIn(results) == {i \in DOMAIN results : results[i].found}

TooFew(results) == 10 * Cardinality(IdentifiedIn(results)) < 7 * Len(results)

IdentificationGate(results, analysis, r) ==
    /\ (~analysis.ok /\ analysis.error = "Only some tracks identified") <=> TooFew(results)
    /\ ~analysis.ok => r.fs = fs /\ r.calls[1].dst = NoPath

\* C11: an album of at least one track is rejected as insufficiently identified
\* exactly when 10 * identified < 7 * total, whatever the artists of the
\* identified tracks are, and a batch run with the apply flag leaves every file
\* and directory of a rejected album as it was.
C11_IdentificationGate ==
    Ripped(fs) # <<>> =>
        IdentificationGate(Lookups(fs, answers), analyze_album(fs, RipDir, answers),
                           main(fs, TRUE, RipDir, <<>>, answers, 0))

\* Six of ten tracks identified: rejected.
C11_SixOfTen ==
    /\ Len(Ripped(fs)) = 10
    /\ Cardinality(IdentifiedIn(Lookups(fs, answers))) = 6
    /\ analyze_album(fs, RipDir, answers).error = "Only some tracks identified"

\* How many identified tracks of results have the artist of track i.
Votes(results, i) ==
    Cardinality({j \in IdentifiedIn(results) : results[j].artist = results[i].artist})

\* The first identified track whose artist no other artist outnumbers.
Leader(results) ==
    CHOOSE i \in IdentifiedIn(results) :
        /\ \A j \in IdentifiedIn(results) : Votes(results, j) <= Votes(results, i)
        /\ \A j \in IdentifiedIn(results) : j < i => Votes(results, j) < Votes(results, i)

Split(results) ==
    10 * Votes(results, Leader(results)) < 7 * Cardinality(IdentifiedIn(results))

ConsensusGate(results, primary_artist, analysis) ==
    /\ IdentifiedIn(results) # {} => primary_artist = results[Leader(results)].artist
    /\ ~TooFew(results) =>
           /\ (~analysis.ok /\ analysis.error = "No consensus on artist") <=> Split(results)
           /\ analysis.ok <=> ~Split(results)
           /\ analysis.ok =>
                  /\ analysis.artist = results[Leader(results)].artist
                  /\ analysis.artist_count = Votes(results, Leader(results))
                  /\ analysis.identified_count = Cardinality(IdentifiedIn(results))

\* The artists of the identified tracks of the ripped album, as analyze_album collects them.
RippedArtists == artists_of(analyze_tracks(Ripped(fs), 1, answers))

\* C12: the primary artist is the artist of most identified tracks, the one met
\* first in track order on a tie; the consensus ratio is its count over the
\* number of identified tracks; an album past the identification gate is
\* rejected for lack of consensus exactly when 10 * count < 7 * identified.
C12_ConsensusGate ==
    Ripped(fs) # <<>> =>
        ConsensusGate(Lookups(fs, answers),
                      IF RippedArtists = <<>> THEN <<>> ELSE most_common(RippedArtists),
                      analyze_album(fs, RipDir, answers))

\* Ten tracks, eight identified, four for each of two artists: rejected.
C12_FourFour ==
    /\ Len(Ripped(fs)) = 10
    /\ Cardinality(IdentifiedIn(Lookups(fs, answers))) = 8
    /\ Votes(Lookups(fs, answers), Leader(Lookups(fs, answers))) = 4
    /\ analyze_album(fs, RipDir, answers).error = "No consensus on artist"

\* The identified tracks whose recording is on a release. No release of the
\* answers is titled "Unknown Album": a result carries that name exactly when
\* its recording is on no release.
Released(results) ==
    {i \in IdentifiedIn(results) : results[i].album # <<>> /\ results[i].album # UnknownAlbum}

AlbumVotes(results, i) ==
    Cardinality({j \in Released(results) : results[j].album = results[i].album})

PrimaryAlbum(results, analysis) ==
    analysis.ok =>
        IF Released(results) = {} THEN analysis.album = UnknownAlbum
        ELSE \E i \in Released(results) :
                 /\ analysis.album = results[i].album
                 /\ \A j \in Released(results) : AlbumVotes(results, j) <= AlbumVotes(results, i)

\* C13: the album of an accepted analysis is the most frequent release title
\* among the identified tracks, a track whose recording is on no release
\* counting for none, and it is "Unknown Album" only when no identified track
\* has a release title.
C13_PrimaryAlbum ==
    Ripped(fs) # <<>> =>
        PrimaryAlbum(Lookups(fs, answers), analyze_album(fs, RipDir, answers))

\* The tracks whose lookup result has a year.
Dated(results) == {i \in IdentifiedIn(results) : results[i].year # <<>>}

FirstYear(results, analysis) ==
    analysis.ok =>
        IF Dated(results) = {} THEN analysis.year = <<>>
        ELSE \E i \in Dated(results) :
                 /\ \A j \in Dated(results) : i <= j
                 /\ analysis.year = results[i].year

\* C14: the year of an accepted analysis is the first non-empty year in track
\* order, however often other years occur, and is empty when no track has one.
C14_FirstYear ==
    Ripped(fs) # <<>> =>
        FirstYear(Lookups(fs, answers), analyze_album(fs, RipDir, answers))

\* An accepted album whose first track has no year, whose year is that of a
\* later track, and most of whose tracks have another year.
C14_EarlierNotCommoner ==
    /\ Ripped(fs) # <<>>
    /\ analyze_album(fs, RipDir, answers).ok
    /\ 1 \notin Dated(Lookups(fs, answers))
    /\ \E i \in Dated(Lookups(fs, answers)) :
           /\ analyze_album(fs, RipDir, answers).year = Lookups(fs, answers)[i].year
           /\ 2 * Cardinality({j \in Dated(Lookups(fs, answers)) :
                                  Lookups(fs, answers)[j].year = Lookups(fs, answers)[i].year})
                  < Cardinality(Dated(Lookups(fs, answers)))

----------------------------------------------------------------------------
(* The resolver.                                                           *)

HasTitleAndArtist(recording) ==
    /\ recording.title # <<>>
    /\ recording.artists # <<>> /\ recording.artists[1] # <<>>

\* The places <<group, recording>> of response a first-fit scan may stop at.
Fits(response) ==
    {p \in (1..Len(response.results)) \X (1..2) :
        /\ 10 * response.results[p[1]].score >= 8 * 100
        /\ p[2] <= Len(response.results[p[1]].recordings)
        /\ HasTitleAndArtist(response.results[p[1]].recordings[p[2]])}

NotAfter(p, q) == p[1] < q[1] \/ (p[1] = q[1] /\ p[2] <= q[2])

FirstFit(response, r) ==
    IF response.raised \/ Fits(response) = {} THEN ~r.found
    ELSE \E p \in Fits(response) :
             /\ \A q \in Fits(response) : NotAfter(p, q)
             /\ r.found
             /\ r.title = response.results[p[1]].recordings[p[2]].title
             /\ r.artist = response.results[p[1]].recordings[p[2]].artists[1]
             /\ r.score = response.results[p[1]].score

\* C15: the lookup returns the first recording, in group order and then in
\* recording order, that has a title and an artist and whose group scores
\* 0.80 or more, with that group's score; it returns nothing when there is no
\* such recording, and never a recording of a group that scores less.
C15_FirstFit ==
    \A q \in DOMAIN answers : FirstFit(answers[q], fingerprint_and_lookup(answers[q]))

\* A group below 0.80 whose recording has title and artist is passed over, and
\* so is the untitled first recording of the group after it.
C15_PassedOver ==
    \E q \in DOMAIN answers :
        /\ ~answers[q].raised /\ Len(answers[q].results) = 2
        /\ answers[q].results[1].score < MIN_CONFIDENCE
        /\ answers[q].results[1].recordings # <<>>
        /\ HasTitleAndArtist(answers[q].results[1].recordings[1])
        /\ Len(answers[q].results[2].recordings) = 2
        /\ answers[q].results[2].recordings[1].title = <<>>
        /\ fingerprint_and_lookup(answers[q]).found
        /\ fingerprint_and_lookup(answers[q]).artist = answers[q].results[2].recordings[2].artists[1]
        /\ fingerprint_and_lookup(answers[q]).artist # answers[q].results[1].recordings[1].artists[1]

----------------------------------------------------------------------------
(* Failures of single tracks.                                              *)

\* The audio files of the ripped album.
AudioFiles(f) ==
    IF exists(f, RipDir) THEN {q \in listdir(f, RipDir) : endswith(basename(q), DotFlac)}
    ELSE {}

OneTrackPerFile(files, results, tracks, analysis) ==
    /\ Len(tracks) = Cardinality(files)
    /\ {tracks[i].path : i \in 1..Len(tracks)} = files
    /\ \A i \in 1..Len(tracks) :
           /\ tracks[i].track_num = i
           /\ \A j \in 1..Len(tracks) :
                  i < j => LexLess(basename(tracks[i].path), basename(tracks[j].path))
           /\ answers[tracks[i].path].raised => ~tracks[i].identified
           /\ tracks[i].identified <=> results[i].found
    /\ analysis.ok =>
           /\ analysis.tracks = tracks
           /\ analysis.total_tracks = Cardinality(files)
           /\ analysis.identified_count = Cardinality(IdentifiedIn(results))
           /\ analysis.identified_count <= analysis.total_tracks

\* C16: a lookup that fails leaves its own track unidentified and no other;
\* the analysis has exactly one track per audio file, numbered 1..n in the
\* order of the file names, and identified_count <= total_tracks.
C16_OneTrackPerFile ==
    Ripped(fs) # <<>> =>
        OneTrackPerFile(AudioFiles(fs), Lookups(fs, answers),
                        analyze_tracks(Ripped(fs), 1, answers),
                        analyze_album(fs, RipDir, answers))

\* An accepted album one of whose lookups failed before a later track was identified.
C16_FailureAbsorbed ==
    /\ Ripped(fs) # <<>>
    /\ analyze_album(fs, RipDir, answers).ok
    /\ \E i \in 1..Len(Ripped(fs)), j \in 1..Len(Ripped(fs)) :
           /\ i < j
           /\ answers[Ripped(fs)[i]].raised
           /\ analyze_album(fs, RipDir, answers).tracks[j].identified

----------------------------------------------------------------------------
(* Names.                                                                  *)

\* No forbidden character, no whitespace at either end.
SafeName(s) ==
    /\ \A i \in 1..Len(s) : \A k \in 1..Len(Forbidden) : s[i] # Forbidden[k]
    /\ s # <<>> => s[1] # " " /\ s[Len(s)] # " "

Sanitized(x, y, z) == z = y /\ SafeName(y)

\* The names the handlers have made of their inputs: the artist and album
\* folders of the library.
MadeNames(f) == {basename(p) : p \in AlbumDirs(f)} \cup {basename(dirname(p)) : p \in AlbumDirs(f)}

\* C17: for every name, the empty one included, sanitizing it twice gives what
\* sanitizing it once gives, and the sanitized name has none of the characters
\* / \ : * ? " < > | and no whitespace at either end; so for the web
\* application's sanitize as for the batch tagger's sanitize_filename, and so
\* for the names of the folders they have made.
C17_Sanitize ==
    /\ \A x \in NameInputs :
           /\ Sanitized(x, sanitize(x), sanitize(sanitize(x)))
           /\ Sanitized(x, sanitize_filename(x), sanitize_filename(sanitize_filename(x)))
    /\ \A y \in MadeNames(fs) : Sanitized(y, y, sanitize(y))

\* An album was saved under a name with a forbidden character in it.
C17_Replaced ==
    \E i \in 1..Len(history) :
        /\ history[i].artist # sanitize(history[i].artist)
        /\ history[i].new_path = MUSIC_DIR \o <<sanitize(history[i].artist), sanitize(history[i].album)>>
        /\ exists(fs, history[i].new_path)

----------------------------------------------------------------------------
(* Compilations.                                                           *)

Contains(s, sub) == \E i \in 1..(Len(s) - Len(sub) + 1) : SubSeq(s, i, i + Len(sub) - 1) = sub

\* The first place of sub in s.
FirstAt(s, sub) ==
    CHOOSE i \in 1..(Len(s) - Len(sub) + 1) :
        /\ SubSeq(s, i, i + Len(sub) - 1) = sub
        /\ \A j \in 1..(i - 1) : SubSeq(s, j, j + Len(sub) - 1) # sub

\* The artist, lower-cased, is one of the vocabulary.
InVocabulary(artist) == Lower(artist) \in compilation_keywords

\* ... or has one of three of its words in it.
Marked(artist) ==
    \/ InVocabulary(artist)
    \/ \E kw \in {<<"v", "a", "r", "i", "o", "u", "s">>,
                  <<"s", "o", "u", "n", "d", "t", "r", "a", "c", "k">>,
                  <<"o", "s", "t">>} : Contains(Lower(artist), kw)

IsSplit(title, tags) ==
    /\ tags.artist = Strip(SubSeq(title, 1, FirstAt(title, Dash) - 1))
    /\ tags.title = Strip(SubSeq(title, FirstAt(title, Dash) + Len(Dash), Len(title)))

\* The tagged files of dir that are numbered i.
Numbered(f, dir, i) ==
    {q \in listdir(f, dir) : f[q].kind = "file" /\ f[q].valid /\ f[q].tags.tracknumber = Str(i)}

\* The title save takes for track i of the form.
TitleOf(form, i) ==
    IF Strip(FormTitle(form.titles, i)) = <<>> THEN TrackWord \o Str(i)
    ELSE Strip(FormTitle(form.titles, i))

TaggedAsMarked(artist, title, tags) ==
    IF Marked(artist) /\ Contains(title, Dash)
    THEN IsSplit(title, tags) /\ tags.compilation = <<"1">>
    ELSE /\ tags.artist = artist /\ tags.title = title
         /\ tags.compilation = IF Marked(artist) THEN <<"1">> ELSE <<>>

TaggedAsVocabulary(artist, title, tags) ==
    IF InVocabulary(artist) /\ Contains(title, Dash)
    THEN IsSplit(title, tags)
    ELSE tags.artist = artist /\ tags.title = title /\ tags.compilation = <<>>

SavedAsMarked(form, r) ==
    r.result = "Success" =>
        \A i \in 1..2 : \A q \in Numbered(r.fs, r.dst, i) :
            TaggedAsMarked(Strip(form.artist), TitleOf(form, i), r.fs[q].tags)

SavedAsVocabulary(form, r) ==
    r.result = "Success" =>
        \A i \in 1..2 : \A q \in Numbered(r.fs, r.dst, i) :
            TaggedAsVocabulary(Strip(form.artist), TitleOf(form, i), r.fs[q].tags)

\* C19, as amended: an album is a compilation exactly when its artist,
\* lower-cased, is one of the vocabulary or contains "various", "soundtrack"
\* or "ost". A track of a compilation whose title contains " - " gets the part
\* before the first " - " as artist and the rest as title; every other track
\* gets the album artist and the full title; and every track of a compilation,
\* split or not, gets the compilation flag, which no other track gets.
C19_Marked ==
    \A p \in WebDirs(fs), artist \in ArtistInputs, title \in TitleInputs :
        SavedAsMarked(Form(p, artist, AlbumB, <<title>>),
                      save(fs, history, clock, Form(p, artist, AlbumB, <<title>>), 0))

\* An album saved under an artist that is none of the vocabulary but contains
\* "ost": its track "A - S" has the flag, the artist A and the title S.
C19_Overmatched ==
    \E q \in DOMAIN fs :
        /\ fs[q].kind = "file"
        /\ ~InVocabulary(fs[q].tags.albumartist) /\ Marked(fs[q].tags.albumartist)
        /\ fs[q].tags.compilation = <<"1">>
        /\ fs[q].tags.artist = ArtistA /\ fs[q].tags.title = TitleS

\* C19, as stated: an album is a compilation exactly when its artist,
\* lower-cased, is one of the vocabulary; a title of a compilation that
\* contains " - " is split at the first one; in every other case the track gets
\* the album artist and the full title, and no compilation flag.
C19_Vocabulary ==
    \A p \in WebDirs(fs), artist \in ArtistInputs, title \in TitleInputs :
        SavedAsVocabulary(Form(p, artist, AlbumB, <<title>>),
                          save(fs, history, clock, Form(p, artist, AlbumB, <<title>>), 0))

----------------------------------------------------------------------------
(* Saving in place.                                                        *)

\* The form names the folder it is posted for.
InPlace(f, form) ==
    /\ exists(f, form.path)
    /\ Strip(form.artist) # <<>> /\ Strip(form.album_name) # <<>>
    /\ normpath(MUSIC_DIR \o <<sanitize(Strip(form.artist)), sanitize(Strip(form.album_name))>>)
           = normpath(form.path)

\* The library: everything under MUSIC_DIR.
Library(f) == {p \in DOMAIN f : IsPrefix(MUSIC_DIR, p)}

\* Nothing of the library has come, gone or changed but the tags of files.
TagsOnly(f, g) ==
    /\ Library(g) = Library(f)
    /\ \A p \in Library(f) :
           \/ g[p] = f[p]
           \/ f[p].kind = "file" /\ g[p] = [f[p] EXCEPT !.tags = g[p].tags]

RewrittenInPlace(r) ==
    /\ r.result = "Success"
    /\ TagsOnly(fs, r.fs)
    /\ r.history # <<>>
    /\ r.history[Len(r.history)].action.kind = "Updated metadata"
    /\ r.history[Len(r.history)].new_path = r.history[Len(r.history)].original_path

\* C18: a save whose destination root/sanitized artist/sanitized album
\* normalises to the source rewrites tags only: no file of the library is moved
\* or renamed, no directory of it is created or removed, the save is not
\* refused because the destination exists, and the action recorded is
\* "Updated metadata".
C18_InPlace ==
    \A form \in Forms(fs), failAt \in 0..1 :
        InPlace(fs, form) => RewrittenInPlace(save(fs, history, clock, form, failAt))

\* An album was saved in place and its tags were rewritten.
C18_SavedInPlace ==
    /\ history # <<>>
    /\ history[Len(history)].action.kind = "Updated metadata"
    /\ \E q \in listdir(fs, history[Len(history)].original_path) :
           /\ fs[q].kind = "file"
           /\ fs[q].tags.date = <<"1">>

----------------------------------------------------------------------------
(* A move that fails.                                                      *)

\* save will move the tracks of the folder: it is there, it is named, and its
\* destination is another place, which is free.
MovesTracks(f, form) ==
    /\ exists(f, form.path) /\ glob_flac(f, form.path) # <<>>
    /\ Strip(form.artist) # <<>> /\ Strip(form.album_name) # <<>>
    /\ ~InPlace(f, form)
    /\ ~exists(f, MUSIC_DIR \o <<sanitize(Strip(form.artist)), sanitize(Strip(form.album_name))>>)

\* Every track of the n but the one that failed is at the destination.
OthersMoved(f, dst, n, failed) ==
    \A i \in 1..n :
        i # failed => \E q \in listdir(f, dst) : startswith(basename(q), Pad2(i) \o Dash)

SaveGoesOn(form, n, r) ==
    /\ OthersMoved(r.fs, r.dst, n, 1)
    /\ Len(r.history) = Len(history) + 1
    /\ r.history[Len(r.history)].original_path = form.path

ApplyGoesOn(n, r) ==
    r.calls[1].result = "applied" => OthersMoved(r.fs, r.calls[1].dst, n, 1)

\* C20: when the move of the first track fails, save and the batch tagger's
\* apply still move every other track, and save still appends its history
\* entry.
C20_GoesOn ==
    /\ \A form \in Forms(fs) :
           MovesTracks(fs, form) =>
               SaveGoesOn(form, Len(glob_flac(fs, form.path)),
                          save(fs, history, clock, form, 1))
    /\ \A arg \in AlbumDirs(fs), ra \in Responses, rb \in Responses :
           ApplyGoesOn(Len(glob_flac(fs, arg)),
                       main(fs, TRUE, arg, <<>>, LookupBy(fs, ra, rb), 1))

----------------------------------------------------------------------------
(* The history as a record of what was appended.                           *)

\* The place in log of the entry stored at place i of the history.
PlaceInLog(i) == Len(log) - Len(history) + i

\* C22: the stored history is the last entries appended, at most 100 of them
\* and in the order of their appending, each as it was appended but for its
\* undone flag, which is set on exactly the entries whose backup an undo has
\* restored; an entry is missing only when 100 entries were appended after it.
C22_AppendOnly ==
    /\ Len(history) = IF Len(log) > 100 THEN 100 ELSE Len(log)
    /\ \A i \in 1..Len(history) :
           history[i] = [log[PlaceInLog(i)] EXCEPT !.undone = (PlaceInLog(i) \in reversed)]

----------------------------------------------------------------------------
(* The title of a track that was not identified.                           *)

IsDigit(c) == \E k \in 1..Len(Digits) : Digits[k] = c

\* s begins with two digits and " - ".
HasOrdinalPrefix(s) ==
    /\ Len(s) >= 2 + Len(Dash)
    /\ IsDigit(s[1]) /\ IsDigit(s[2])
    /\ SubSeq(s, 3, 2 + Len(Dash)) = Dash

FallbackTitles(flac_files, tracks) ==
    \A i \in 1..Len(flac_files) :
        /\ ~tracks[i].identified
        /\ tracks[i].artist = <<>>
        /\ tracks[i].title =
               IF HasOrdinalPrefix(stem(basename(flac_files[i])))
               THEN SubSeq(stem(basename(flac_files[i])), 3 + Len(Dash),
                           Len(stem(basename(flac_files[i]))))
               ELSE stem(basename(flac_files[i]))

\* C24: a track that is not identified has no artist, and for title the stem of
\* its file name without the leading "NN - ", whatever the two digits NN are,
\* or the whole stem when it does not begin so.
C24_FallbackTitle ==
    \A arg \in AlbumDirs(fs) :
        FallbackTitles(glob_flac(fs, arg),
                       analyze_tracks(glob_flac(fs, arg), 1, LookupBy(fs, ResponseErr, ResponseErr)))

----------------------------------------------------------------------------
(* A delete without backup.                                                *)

\* The newest entry of h records a delete without backup.
EndsUnbacked(h) ==
    /\ h # <<>>
    /\ h[Len(h)].new_path = NoPath /\ h[Len(h)].backup_path = NoPath

DeletedUnbacked(r) == r.result = "Deleted" => EndsUnbacked(r.history)

\* What undo selected has a backup path, and when it puts a folder where the
\* newest delete removed one, it is an older entry of that place it restores.
UndoesOlder(h, r) ==
    /\ r.sel # 0 => h[r.sel].backup_path # NoPath
    /\ (EndsUnbacked(h) /\ ~exists(fs, h[Len(h)].original_path)
           /\ exists(r.fs, h[Len(h)].original_path)) =>
           /\ r.result = "Undo successful"
           /\ r.sel < Len(h)
           /\ h[r.sel].original_path = h[Len(h)].original_path

NotRecreated(h, r) ==
    (EndsUnbacked(h) /\ ~exists(fs, h[Len(h)].original_path)) =>
        ~exists(r.fs, h[Len(h)].original_path)

----------------------------------------------------------------------------
(* A save that is refused.                                                 *)

\* The backup area: what is under BACKUP_DIR.
BackupArea(f) == [p \in {q \in DOMAIN f : IsPrefix(BACKUP_DIR, q)} |-> f[p]]

LedgerKept(r) ==
    r.result \in {"Album not found", "Artist and Album name are required",
                  "Folder already exists"} =>
        /\ r.history = history
        /\ BackupArea(r.fs) = BackupArea(fs)
        /\ \A i \in 1..Len(history) :
               (history[i].backup_path # NoPath /\ exists(fs, history[i].backup_path))
                   => exists(r.fs, history[i].backup_path)

\* C28: a save refused because the album is not found, because artist or album
\* name is empty or because the destination exists appends no history entry
\* and creates and deletes no backup: the backup of every history entry that
\* was on disk before is on disk after.
C28_LedgerKept ==
    \A form \in Forms(fs) : LedgerKept(save(fs, history, clock, form, 0))

----------------------------------------------------------------------------
(* What is removed once the tracks are moved.                              *)

\* What was strictly below src in f.
Below(f, src) == {p \in DOMAIN f : IsPrefix(src, p) /\ p # src}

\* The tracks of src: the *.flac files directly in it.
TracksIn(f, src) == {p \in listdir(f, src) : endswith(basename(p), DotFlac)}

\* Nothing of the library outside src has gone or changed, but at most dir.
OthersKept(f, g, src, dir) ==
    \A p \in Library(f) :
        (~IsPrefix(src, p) /\ p # dir) => (p \in DOMAIN g /\ g[p] = f[p])

\* dir is gone only if all it held was src.
GoneOnlyIfEmpty(f, g, src, dst, dir) ==
    (exists(f, dir) /\ ~exists(g, dir)) =>
        /\ \A p \in Below(f, dir) : IsPrefix(src, p)
        /\ IsPrefix(dir, dst) => IsPrefix(src, dst)

WebCleanup(src, r) ==
    r.result = "Success" =>
        /\ ~exists(r.fs, src)
        /\ OthersKept(fs, r.fs, src, dirname(src))
        /\ GoneOnlyIfEmpty(fs, r.fs, src, r.dst, dirname(src))

BatchCleanup(src, failAt, r) ==
    r.calls[1].result = "applied" =>
        /\ \A p \in Below(fs, src) \ TracksIn(fs, src) : exists(r.fs, p)
        /\ ~exists(r.fs, src) =>
               (Below(fs, src) = TracksIn(fs, src) /\ failAt \notin 1..Cardinality(TracksIn(fs, src)))
        /\ OthersKept(fs, r.fs, src, UNKNOWN_DIR)
        /\ GoneOnlyIfEmpty(fs, r.fs, src, r.calls[1].dst, UNKNOWN_DIR)

WebOnlyIfEmpty(src, r) ==
    r.result = "Success" =>
        /\ \A p \in Below(fs, src) \ TracksIn(fs, src) : exists(r.fs, p)
        /\ ~exists(r.fs, src) => Below(fs, src) = TracksIn(fs, src)
        /\ OthersKept(fs, r.fs, src, dirname(src))
        /\ GoneOnlyIfEmpty(fs, r.fs, src, r.dst, dirname(src))

----------------------------------------------------------------------------
(* What delete_album takes for a path of the library.                      *)

StrictlyInside(root, path) == IsPrefix(root, path) /\ path # root

DeleteRejected(r) == r.result = "Invalid path" /\ r.fs = fs /\ r.history = history

\* C26: delete_album rejects as an invalid path every existing directory that
\* is not strictly inside MUSIC_DIR, MUSIC_DIR itself and a directory beside
\* it whose path begins with the same characters included: nothing is
\* deleted, no backup is made, and no history entry is appended.
C26_InsideRoot ==
    \A path \in ShelfPaths(fs), keep_backup \in BOOLEAN :
        (exists(fs, path) /\ ~StrictlyInside(MUSIC_DIR, path)) =>
            DeleteRejected(delete_album(fs, history, clock, path, keep_backup))

----------------------------------------------------------------------------
(* The backups another backup leaves.                                      *)

\* Every backup of a folder with another name than n is still there after b.
OtherBackupsKept(n, b) ==
    \A e \in listdir(fs, BACKUP_DIR) : BackedUpName(e) # n => exists(b.fs, e)

\* C29: a backup of a folder named N deletes only the older backups of
\* folders named exactly N: the backup of a folder whose name merely ends
\* with "_" and N, as G_B does for B, is still there afterwards.
C29_ExactName ==
    \A path \in ShelfDirs(fs) :
        OtherBackupsKept(basename(path), create_backup(fs, path, clock))

----------------------------------------------------------------------------
(* Where the tracks are after a save that moved them.                      *)

\* Track i of the album is in dir under a name save gives.
Arrived(f, dir, i) ==
    \E q \in listdir(f, dir) :
        startswith(basename(q), Pad2(i) \o Dash) /\ endswith(basename(q), DotFlac)

AllArrived(n, r) == r.result = "Success" => \A i \in 1..n : Arrived(r.fs, r.dst, i)

\* C30: after a save that moved an album and answered with success, every
\* track of the source folder is in the destination under its new name, also
\* when the destination lies inside the source (the album folder X directly
\* under MUSIC_DIR saved with artist X).
C30_NoTrackLost ==
    \A form \in ShelfForms(fs) :
        MovesTracks(fs, form) =>
            AllArrived(Len(glob_flac(fs, form.path)), save(fs, history, clock, form, 0))

----------------------------------------------------------------------------
(* Two saves at once.                                                      *)

\* After g the tracks of the request are out of the source and in new_dir.
WrittenInto(g, c, flac_files) ==
    \A i \in 1..Len(flac_files) :
        ~exists(g, flac_files[i]) /\ Arrived(g, c.new_dir, i)

\* C23: nothing keeps a save that found its destination absent from writing
\* into it later: past the test it makes the directory and moves its tracks
\* there whatever another save has put there since, so two saves with one
\* destination that both pass the test before either makes the directory
\* both write their tracks into it.
C23_NoRetest ==
    \A r \in Requests :
        (At(r, "tested") /\ ~inflight[r].c.same_location) =>
            WrittenInto(save_moved(fs, inflight[r].c, inflight[r].flac_files),
                        inflight[r].c, inflight[r].flac_files)

\* Both requests have moved their tracks into the same new_dir, which the
\* second found already made.
C23_BothWrote ==
    \E r \in Requests, q \in Requests :
        /\ r # q
        /\ r \in DOMAIN inflight /\ q \in DOMAIN inflight
        /\ inflight[r].pc \in {"moved", "loaded", "done"} /\ inflight[r].wrote = (inflight[r].pc = "done")
        /\ inflight[q].pc \in {"moved", "loaded", "done"} /\ inflight[q].wrote = (inflight[q].pc = "done")
        /\ inflight[r].c.new_dir = inflight[q].c.new_dir
        /\ ~inflight[r].c.same_location /\ ~inflight[q].c.same_location
        /\ ~inflight[r].found /\ inflight[q].found

\* C27: the entries of two saves whose add_history_entry calls interleave are
\* both in the history afterwards, and no two entries have the same id.
C27_NoLostUpdate ==
    /\ \A r \in Requests :
           (At(r, "done") /\ inflight[r].wrote) =>
               \E i \in 1..Len(history) :
                   history[i].original_path = inflight[r].c.folder_path
    /\ \A i \in 1..Len(history), j \in 1..Len(history) :
           history[i].id = history[j].id => i = j

====
